---- MODULE Spec2Model ----
(***************************************************************************)
(* Model of the tab-addressable session layer of Selenium-MCP             *)
(* (src/main.py): class FirefoxAutoBrowser, the module-level `browser`     *)
(* instance and the tool wrappers around it.  The remote browser engine    *)
(* (selenium webdriver.Remote) is modelled by the record `eng`.  `last` is *)
(* the call that has run and whose envelope is being returned: its         *)
(* arguments, the envelope and every engine call it issued; the envelope   *)
(* of construction (self.init_result, never read again) is the `last` of   *)
(* the initial states.  `inflight` holds the frames of the tool calls the   *)
(* transport runs at the same time, each at one of its engine calls; it is *)
(* empty while calls are served one after the other.                       *)
(***************************************************************************)
EXTENDS Integers, Sequences, FiniteSets, TLC

VARIABLES browser, driver, eng, last, inflight

vars == <<browser, driver, eng, last, inflight>>

----------------------------------------------------------------------------
(* Bounds of the model *)

\* number of tab handles the engine issues in one behaviour
MaxHandles == 3

\* longest sequence of engine calls one operation can make (close_specific_tab)
MaxCalls == 6

----------------------------------------------------------------------------
(* Python values *)

\* handles the engine issues, in the order it issues them (never reused)
HandleNames == <<"A", "B", "C", "D", "E", "F", "G", "H">>

Handles == {HandleNames[k] : k \in 1..MaxHandles}

\* `target` / `target_tab` arguments, tagged with their Python type
NoneT == [t |-> "NoneType"]
IntT(k) == [t |-> "int", i |-> k]
BoolT(x) == [t |-> "bool", b |-> x]
StrT(h) == [t |-> "str", s |-> h]
FloatT == [t |-> "float"]
ListT == [t |-> "list"]

Targets ==
  {NoneT, FloatT, ListT}
    \cup {IntT(k) : k \in -1..MaxHandles}
    \cup {BoolT(x) : x \in BOOLEAN}
    \cup {StrT(h) : h \in Handles \cup {"zz"}}

\* isinstance(target, int): bool is a subclass of int
IsInstanceInt(target) == target.t \in {"int", "bool"}

IsInstanceStr(target) == target.t = "str"

\* the value an int (or bool) has when compared and used as a list index
IntValue(target) ==
  IF target.t = "bool" THEN (IF target.b THEN 1 ELSE 0) ELSE target.i

\* `x in all_handles`
InList(x, xs) == \E k \in 1..Len(xs) : xs[k] = x

\* all_handles.index(x), 0-based; -1 stands for ValueError
IndexOf(x, xs) ==
  IF InList(x, xs) THEN (CHOOSE k \in 1..Len(xs) : xs[k] = x) - 1 ELSE -1

\* the list without x
Without(xs, x) == SelectSeq(xs, LAMBDA y : y # x)

----------------------------------------------------------------------------
(* Result envelope *)

NoneV == [t |-> "None"]
StrV(x) == [t |-> "str", s |-> x]
ListV(xs) == [t |-> "list", l |-> xs]

\* message: the fixed text of the f-string (a tag), the tab count and the
\* index range it interpolates (<<>> when the text names none), and the
\* message it wraps
Msg(text) == [text |-> text, count |-> <<>>, range |-> <<>>, wraps |-> <<>>]

Envelope(code, status, message, detail, data) ==
  [code |-> code, status |-> status, message |-> message,
   detail |-> detail, data |-> data]

----------------------------------------------------------------------------
(* Browser engine: selenium webdriver.Remote *)

\* exceptions: cls is the Python class the except clauses dispatch on, kind
\* tells whether str(e) holds "Browsing context has been discarded" or
\* "NoSuchWindowError" ("ctx") or not
NoExc == [cls |-> "", kind |-> "", msg |-> Msg("")]
Exc(cls, kind, msg) == [cls |-> cls, kind |-> kind, msg |-> msg]

\* an injected engine failure: the at-th engine call of the operation raises
\* an exception of the given kind (kinds: "ctx", "other", "timeout", "nosuch")
NoFault == [at |-> 0, kind |-> "none"]

\* what str(e) of a no-such-window error holds depends on the engine
NoWindowKinds == {"ctx", "other"}

Call(c, h, n) == [c |-> c, h |-> h, n |-> n]

\* the thread of one operation: engine state, calls issued so far, the
\* pending exception, and the values the calls returned
Thread(e) == [eng |-> e, calls |-> <<>>, exc |-> NoExc, hs |-> <<>>, rest |-> <<>>,
              h |-> "", text |-> "", fault |-> "none"]

Raised(t) == t.exc.cls # ""

Fires(t, f) == f.at = Len(t.calls) + 1

\* the page a new tab shows, and the pages of the open tabs as a function
\* from handle to url
BlankPage == "about:blank"

Put(pages, h, url) == [x \in DOMAIN pages \cup {h} |-> IF x = h THEN url ELSE pages[x]]

Drop(pages, h) == [x \in DOMAIN pages \ {h} |-> pages[x]]

\* the engine before webdriver.Remote(...) connects, and right after
NoSession ==
  [handles |-> <<>>, current |-> "", issued |-> 0, alive |-> FALSE,
   page |-> [x \in {} |-> BlankPage]]

\* the engine after the session ended (last window closed, or quit)
Ended(e) == [NoSession EXCEPT !.issued = e.issued]

NewSession ==
  [handles |-> <<HandleNames[1]>>, current |-> HandleNames[1], issued |-> 1,
   alive |-> TRUE, page |-> [x \in {HandleNames[1]} |-> BlankPage]]

HasCurrent(e) == e.alive /\ InList(e.current, e.handles)

\* class and kind of the exception an injected fault raises at a call
FaultCls(f, allowed) ==
  IF f.kind = "timeout" /\ "timeout" \in allowed THEN "TimeoutException"
  ELSE IF f.kind = "nosuch" /\ "nosuch" \in allowed THEN "NoSuchElementException"
  ELSE "WebDriverException"

FaultKind(f, allowed) ==
  IF f.kind \in allowed \cup {"ctx"} THEN f.kind ELSE "other"

\* one engine call: it is logged, then it raises (injected fault, dead
\* session, no current window) or returns; the callers below add its effect
EngineCall(t, f, nw, call, allowed, needsWindow, ok) ==
  IF Raised(t) THEN t
  ELSE LET issued == [t EXCEPT !.calls = Append(@, call)]
       IN  IF Fires(t, f)
             THEN [issued EXCEPT
                     !.exc = Exc(FaultCls(f, allowed), FaultKind(f, allowed), Msg("engine")),
                     !.fault = FaultKind(f, allowed)]
           ELSE IF ~t.eng.alive
             THEN [issued EXCEPT !.exc = Exc("WebDriverException", "other", Msg("engine")),
                                 !.fault = "dead"]
           ELSE IF (needsWindow /\ ~HasCurrent(t.eng)) \/ ~ok
             THEN [issued EXCEPT !.exc = Exc("WebDriverException", nw, Msg("engine")),
                                 !.fault = "nowindow"]
           ELSE issued

\* variant: the list holds every handle issued so far, closed tabs included
WindowHandles_AllIssued(t, f, nw) ==
  LET u == EngineCall(t, f, nw, Call("window_handles", "", 0), {}, FALSE, TRUE)
  IN  IF Raised(u) THEN u
      ELSE [u EXCEPT !.hs = [k \in 1..u.eng.issued |-> HandleNames[k]]]

\* driver.window_handles
WindowHandles(t, f, nw) ==
  LET u == EngineCall(t, f, nw, Call("window_handles", "", 0), {}, FALSE, TRUE)
  IN  IF Raised(u) THEN u
      ELSE [u EXCEPT !.hs = u.eng.handles]

\* driver.current_window_handle
CurrentWindowHandle(t, f, nw) ==
  LET u == EngineCall(t, f, nw, Call("current_window_handle", "", 0), {}, TRUE, TRUE)
  IN  IF Raised(u) THEN u
      ELSE [u EXCEPT !.h = u.eng.current]

\* variant: the switch is issued but the engine's current window stays
SwitchToWindow_Unapplied(t, f, nw, h) ==
  EngineCall(t, f, nw, Call("switch_to.window", h, 0), {}, FALSE,
             InList(h, t.eng.handles))

\* driver.switch_to.window(h)
SwitchToWindow(t, f, nw, h) ==
  LET u == EngineCall(t, f, nw, Call("switch_to.window", h, 0), {}, FALSE,
                        InList(h, t.eng.handles))
  IN  IF Raised(u) THEN u
      ELSE [u EXCEPT !.eng.current = h]

\* variant: the engine makes the new window the current one
WindowOpen_Focus(t, f, nw) ==
  LET u == EngineCall(t, f, nw, Call("window.open", "", 0), {}, TRUE, TRUE)
  IN  IF Raised(u) THEN u
      ELSE [u EXCEPT
             !.eng.handles = Append(@, HandleNames[u.eng.issued + 1]),
             !.eng.issued = @ + 1,
             !.eng.current = HandleNames[u.eng.issued + 1],
             !.eng.page = Put(@, HandleNames[u.eng.issued + 1], BlankPage)]

\* driver.execute_script("window.open('');")
WindowOpen(t, f, nw) ==
  LET u == EngineCall(t, f, nw, Call("window.open", "", 0), {}, TRUE, TRUE)
  IN  IF Raised(u) THEN u
      ELSE [u EXCEPT
             !.eng.handles = Append(@, HandleNames[u.eng.issued + 1]),
             !.eng.issued = @ + 1,
             !.eng.page = Put(@, HandleNames[u.eng.issued + 1], BlankPage)]

\* driver.close(): closes the current window; closing the last one ends the
\* engine session; the current window is not re-pointed
DriverClose(t, f, nw) ==
  LET u == EngineCall(t, f, nw, Call("close", t.eng.current, 0), {}, TRUE, TRUE)
  IN  IF Raised(u) THEN u
      ELSE IF Len(u.eng.handles) > 1
             THEN [u EXCEPT !.eng.handles = Without(@, u.eng.current),
                            !.eng.page = Drop(@, u.eng.current)]
           ELSE [u EXCEPT !.eng = Ended(u.eng)]

\* driver.quit()
DriverQuit(t, f, nw) ==
  LET u == EngineCall(t, f, nw, Call("quit", "", 0), {}, FALSE, TRUE)
  IN  IF Raised(u) THEN u
      ELSE [u EXCEPT !.eng = Ended(u.eng)]

\* variant: the navigation is issued but no page is loaded
DriverGet_Nowhere(t, f, nw, url) ==
  EngineCall(t, f, nw, Call("get", url, 0), {"timeout"}, TRUE, TRUE)

\* driver.get(url): loads url in the current window
DriverGet(t, f, nw, url) ==
  LET u == EngineCall(t, f, nw, Call("get", url, 0), {"timeout"}, TRUE, TRUE)
  IN  IF Raised(u) THEN u
      ELSE [u EXCEPT !.eng.page = Put(@, u.eng.current, url)]

\* serialized markup of a page
Markup(url) == "<html>" \o url \o "</html>"

\* variant: the markup read is that of the tab the operation resolved,
\* whatever the engine's current window is when the call is issued
PageSource_OfResolved(t, f, nw) ==
  LET u == EngineCall(t, f, nw, Call("page_source", t.eng.current, 0), {}, TRUE, TRUE)
  IN  IF Raised(u) THEN u
      ELSE [u EXCEPT !.text = Markup(u.eng.page[u.h])]

\* driver.page_source: markup of the current window's page
PageSource(t, f, nw) ==
  LET u == EngineCall(t, f, nw, Call("page_source", t.eng.current, 0), {}, TRUE, TRUE)
  IN  IF Raised(u) THEN u
      ELSE [u EXCEPT !.text = Markup(u.eng.page[u.eng.current])]

\* driver.find_element(by, locator): raises NoSuchElementException when the
\* current page holds no such element (the fault kind "nosuch")
FindElement(t, f, nw, by, locator) ==
  EngineCall(t, f, nw, Call("find_element", t.eng.current, 0), {"nosuch"}, TRUE, TRUE)

\* driver.execute_script("arguments[0].scrollIntoView(...)", element)
ScrollIntoView(t, f, nw) ==
  EngineCall(t, f, nw, Call("scrollIntoView", t.eng.current, 0), {}, TRUE, TRUE)

\* target_element.click()
ElementClick(t, f, nw) ==
  EngineCall(t, f, nw, Call("element.click", t.eng.current, 0), {}, TRUE, TRUE)

\* the number a JavaScript argument text denotes: a decimal literal, or a
\* literal under one unary minus; "error" (a SyntaxError) for "--3", the
\* prefix decrement of a literal
JsNumber(prefix, literal) ==
  LET v == CHOOSE k \in -1000..1000 : ToString(k) = literal
  IN  IF prefix = "" THEN [ok |-> TRUE, n |-> v]
      ELSE IF v < 0 THEN [ok |-> FALSE, n |-> 0]
      ELSE [ok |-> TRUE, n |-> 0 - v]

\* driver.execute_script(f"window.scrollBy(0, {prefix}{literal});")
ScrollBy(t, f, nw, prefix, literal) ==
  LET u == EngineCall(t, f, nw,
                        Call("window.scrollBy", prefix \o literal,
                             IF JsNumber(prefix, literal).ok THEN JsNumber(prefix, literal).n ELSE 0),
                        {}, TRUE, TRUE)
  IN  IF Raised(u) THEN u
      ELSE IF JsNumber(prefix, literal).ok THEN u
      ELSE [u EXCEPT !.exc = Exc("WebDriverException", "other", Msg("engine")),
                     !.fault = "javascript"]

----------------------------------------------------------------------------
(* FirefoxAutoBrowser: the operations *)

\* raise Exception(msg)
RaiseException(t, msg) ==
  IF Raised(t) THEN t ELSE [t EXCEPT !.exc = Exc("Exception", "", msg)]

\* variant: the operation goes on without looking at self.driver
DriverGuard_Unchecked(t, d) == t

\* if not self.driver: raise Exception("Browser driver not initialized")
DriverGuard(t, d) ==
  IF d = "None" THEN RaiseException(t, Msg("Browser driver not initialized")) ELSE t

\* f"{prefix}: {str(e)}"
Wrap(prefix, m) == [m EXCEPT !.text = prefix, !.wraps = <<m.text>> \o m.wraps]

Success(message, detail, data) == Envelope(200, "success", message, detail, data)

\* variant: a failure envelope that says success
Failed_SaysSuccess(code, message, detail) ==
  Envelope(code, "success", message, detail, NoneV)

Failed(code, message, detail) == Envelope(code, "failed", message, detail, NoneV)

\* what an operation leaves behind: self.driver, the engine, the envelope it
\* returns, the engine calls it issued, the handle list it fetched
\* (all_handles) and the handle it resolved
Done(t, d, env) ==
  [driver |-> d, eng |-> t.eng, env |-> env, calls |-> t.calls, fault |-> t.fault,
   all_handles |-> t.hs, h |-> t.h]

\* variant: self.driver is never cleared
SessionAfter_Kept(d, invalidated) == d

\* variant: an operation that does not clear self.driver sets it
SessionAfter_Reinit(d, invalidated) == IF invalidated THEN "None" ELSE "WebDriver"

\* self.driver after an operation: the only assignments outside construction
\* are `self.driver = None` (lines 771, 789, 824)
SessionAfter(d, invalidated) == IF invalidated THEN "None" ELSE d

\* handle[:20] + "..."
Abbr(h) == h \o "..."

\* an exception that leaves the method instead of an envelope
Uncaught(exc) == [raised |-> exc.cls]

\* variant: create_new_tab without its except clause
create_new_tab_NoExcept(d, e, f, nw) ==
  LET t1 == DriverGuard(Thread(e), d)
      t2 == WindowOpen(t1, f, nw)
  IN  IF Raised(t2)
        THEN Done(t2, d, Uncaught(t2.exc))
        ELSE Done(t2, d, Success(Msg("New tab created successfully"), NoneV, NoneV))

\* variant: the handler tests the error text as close_specific_tab's does
create_new_tab_Invalidating(d, e, f, nw) ==
  LET t1 == DriverGuard(Thread(e), d)
      t2 == WindowOpen(t1, f, nw)
  IN  IF Raised(t2)
        THEN Done(t2, SessionAfter(d, t2.exc.kind = "ctx"),
                  Failed(500, Wrap("Failed to create new tab", t2.exc.msg), NoneV))
        ELSE Done(t2, d, Success(Msg("New tab created successfully"), NoneV, NoneV))

\* variant: the except clause catches engine errors only
CreateEnvelope_EngineErrorsOnly(t) ==
  IF t.exc.cls \in {"WebDriverException", "TimeoutException", "NoSuchElementException"}
    THEN Failed(500, Wrap("Failed to create new tab", t.exc.msg), NoneV)
  ELSE IF Raised(t) THEN Uncaught(t.exc)
  ELSE Success(Msg("New tab created successfully"), NoneV, NoneV)

\* the envelope create_new_tab returns
CreateEnvelope(t) ==
  IF Raised(t)
    THEN Failed(500, Wrap("Failed to create new tab", t.exc.msg), NoneV)
    ELSE Success(Msg("New tab created successfully"), NoneV, NoneV)

create_new_tab(d, e, f, nw) ==
  LET t1 == DriverGuard(Thread(e), d)
      t2 == WindowOpen(t1, f, nw)
  IN  Done(t2, d, CreateEnvelope(t2))

\* variant: the failure of current_window_handle is not caught
ActiveOrNone_Raises(t, f, nw) == CurrentWindowHandle(t, f, nw)

\* the inner try/except of get_all_tabs: active_handle is None when
\* current_window_handle raises
ActiveOrNone(t, f, nw) ==
  LET t2 == CurrentWindowHandle(t, f, nw)
  IN  IF Raised(t) THEN t
      ELSE IF Raised(t2) THEN [t2 EXCEPT !.exc = NoExc, !.h = ""]
      ELSE t2

\* tabs_info of get_all_tabs
TabsInfo(window_handles, active_handle) ==
  [k \in 1..Len(window_handles) |->
     [index |-> k - 1,
      handle |-> window_handles[k],
      handle_abbr |-> Abbr(window_handles[k]),
      status |-> IF active_handle # "" /\ window_handles[k] = active_handle
                   THEN "[Currently Active]" ELSE "[Inactive]"]]

\* the envelope get_all_tabs returns
TabsEnvelope(t) ==
  IF Raised(t)
    THEN Failed(500, Wrap("Failed to get all tabs", t.exc.msg), NoneV)
    ELSE Success([Msg("Successfully retrieved tabs in total") EXCEPT !.count = <<Len(t.hs)>>],
                 [total_tabs |-> Len(t.hs), tabs_info |-> TabsInfo(t.hs, t.h)],
                 ListV(t.hs))

get_all_tabs(d, e, f, nw) ==
  LET t1 == DriverGuard(Thread(e), d)
      t2 == WindowHandles(t1, f, nw)
      t3 == ActiveOrNone(t2, f, nw)
  IN  Done(t3, d, TabsEnvelope(t3))

\* active_tab_index = all_handles.index(current_window): ValueError when the
\* current window is not in the list
IndexChecked(t) ==
  IF ~Raised(t) /\ IndexOf(t.h, t.hs) < 0 THEN RaiseException(t, Msg("is not in list")) ELSE t

\* the envelope get_active_tab returns
ActiveEnvelope(t) ==
  IF Raised(t)
    THEN Failed(500, Wrap("Failed to get active tab", t.exc.msg), NoneV)
    ELSE Success(Msg("Successfully retrieved current active tab information"),
                 [total_tabs |-> Len(t.hs),
                  active_tab_index |-> IndexOf(t.h, t.hs),
                  active_tab_handle |-> t.h],
                 StrV(t.h))

get_active_tab(d, e, f, nw) ==
  LET t1 == DriverGuard(Thread(e), d)
      t2 == CurrentWindowHandle(t1, f, nw)
      t3 == WindowHandles(t2, f, nw)
      t4 == IndexChecked(t3)
  IN  Done(t4, d, ActiveEnvelope(t4))

\* variant: a str target is taken as the handle without looking it up
ResolveSwitch_AnyHandle(target, all_handles) ==
  IF IsInstanceInt(target)
    THEN IF 0 <= IntValue(target) /\ IntValue(target) < Len(all_handles)
           THEN [ok |-> TRUE, handle |-> all_handles[IntValue(target) + 1], msg |-> Msg("")]
           ELSE [ok |-> FALSE, handle |-> "",
                 msg |-> [Msg("Tab index is invalid, only tabs exist currently (index)")
                            EXCEPT !.count = <<Len(all_handles)>>,
                                   !.range = <<0, Len(all_handles) - 1>>]]
  ELSE IF IsInstanceStr(target)
    THEN [ok |-> TRUE, handle |-> target.s, msg |-> Msg("")]
  ELSE [ok |-> FALSE, handle |-> "",
        msg |-> Msg("Invalid parameter type, supports int (index) or str (handle)")]

\* lines 216-228: the resolution written in switch_to_specific_tab
ResolveSwitch(target, all_handles) ==
  IF IsInstanceInt(target)
    THEN IF 0 <= IntValue(target) /\ IntValue(target) < Len(all_handles)
           THEN [ok |-> TRUE, handle |-> all_handles[IntValue(target) + 1], msg |-> Msg("")]
           ELSE [ok |-> FALSE, handle |-> "",
                 msg |-> [Msg("Tab index is invalid, only tabs exist currently (index)")
                            EXCEPT !.count = <<Len(all_handles)>>,
                                   !.range = <<0, Len(all_handles) - 1>>]]
  ELSE IF IsInstanceStr(target)
    THEN IF InList(target.s, all_handles)
           THEN [ok |-> TRUE, handle |-> target.s, msg |-> Msg("")]
           ELSE [ok |-> FALSE, handle |-> "",
                 msg |-> Msg("Tab handle is invalid, not in the current tab list")]
  ELSE [ok |-> FALSE, handle |-> "",
        msg |-> Msg("Invalid parameter type, supports int (index) or str (handle)")]

\* variant: a failed resolution first puts the engine on the first tab
Resolved_ResetsContext(t, r) ==
  IF Raised(t) THEN t
  ELSE IF r.ok THEN [t EXCEPT !.h = r.handle]
  ELSE RaiseException([t EXCEPT !.eng.current = t.eng.handles[1]], r.msg)

\* the thread after resolving with r: the handle is set, or the exception raised
Resolved(t, r) ==
  IF Raised(t) THEN t
  ELSE IF r.ok THEN [t EXCEPT !.h = r.handle]
  ELSE RaiseException(t, r.msg)

\* the try block of switch_to_specific_tab
SwitchThread(t, d, target, f, nw) ==
  LET t1 == DriverGuard(t, d)
      t2 == WindowHandles(t1, f, nw)
      t3 == Resolved(t2, ResolveSwitch(target, t2.hs))
  IN  SwitchToWindow(t3, f, nw, t3.h)

\* the envelope switch_to_specific_tab returns
SwitchEnvelope(t, target) ==
  IF Raised(t)
    THEN Failed(500, Wrap("Failed to switch to specific tab", t.exc.msg),
                [input_target |-> target])
    ELSE Success(Msg("Successfully switched to target tab"),
                 [target_param |-> target, target_handle |-> t.h,
                  target_handle_abbr |-> Abbr(t.h)],
                 NoneV)

switch_to_specific_tab(d, e, target, f, nw) ==
  LET t == SwitchThread(Thread(e), d, target, f, nw)
  IN  Done(t, d, SwitchEnvelope(t, target))

\* variant: the result of the nested switch is not looked at
NestedSwitch_IgnoreResult(t, d, target, f, nw, prefix) ==
  IF Raised(t) THEN t ELSE [SwitchThread(t, d, target, f, nw) EXCEPT !.exc = NoExc]

\* switch_result = json.loads(self.switch_to_specific_tab(target));
\* if switch_result["code"] != 200: raise Exception(message)
\* (prefix is the text click_element puts before the message, "" for none)
NestedSwitch(t, d, target, f, nw, prefix) ==
  LET u == SwitchThread(t, d, target, f, nw)
      m == SwitchEnvelope(u, target).message
  IN  IF Raised(t) THEN t
      ELSE IF Raised(u)
        THEN [u EXCEPT !.exc = Exc("Exception", "", IF prefix = "" THEN m ELSE Wrap(prefix, m))]
        ELSE u

\* variant: only the type is tested
InvalidText_EmptyAllowed(x) == x.t # "str"

\* not url or not isinstance(url, str)   (likewise for xpath and locator)
InvalidText(x) == x.t # "str" \/ x.s = ""

\* variant: a failed call puts the engine back on the window it found current
open_url_in_specific_tab_RollsBack(d, e, url, target, f, nw) ==
  LET t1 == DriverGuard(Thread(e), d)
      t2 == IF InvalidText(url) THEN RaiseException(t1, Msg("Invalid web page address"))
            ELSE t1
      t3 == NestedSwitch(t2, d, target, f, nw, "")
      t4 == DriverGet(t3, f, nw, IF InvalidText(url) THEN "" ELSE url.s)
      back == [t4 EXCEPT !.eng.current = e.current]
      detail == [target_tab |-> target, input_url |-> url]
  IN  IF t4.exc.cls \in {"TimeoutException", "WebDriverException"}
        THEN Done(back, d, Failed(500, Wrap("Web page loading timed out or failed to open",
                                           t4.exc.msg), detail))
      ELSE IF Raised(t4)
        THEN Done(back, d, Failed(500, Wrap("Failed to open web page in specific tab",
                                           t4.exc.msg), detail))
      ELSE Done(t4, d, Success(Msg("Successfully opened web page in target tab"),
                               [target_tab |-> target, opened_url |-> url], NoneV))

\* the envelope open_url_in_specific_tab returns
OpenEnvelope(t, url, target) ==
  LET detail == [target_tab |-> target, input_url |-> url]
  IN  IF t.exc.cls \in {"TimeoutException", "WebDriverException"}
        THEN Failed(500, Wrap("Web page loading timed out or failed to open", t.exc.msg),
                    detail)
      ELSE IF Raised(t)
        THEN Failed(500, Wrap("Failed to open web page in specific tab", t.exc.msg), detail)
      ELSE Success(Msg("Successfully opened web page in target tab"),
                   [target_tab |-> target, opened_url |-> url], NoneV)

open_url_in_specific_tab(d, e, url, target, f, nw) ==
  LET t1 == DriverGuard(Thread(e), d)
      t2 == IF InvalidText(url) THEN RaiseException(t1, Msg("Invalid web page address"))
            ELSE t1
      t3 == NestedSwitch(t2, d, target, f, nw, "")
      t4 == DriverGet(t3, f, nw, IF InvalidText(url) THEN "" ELSE url.s)
  IN  Done(t4, d, OpenEnvelope(t4, url, target))

\* variant: no target means the first tab
ActiveHandle_FirstTab(t, f, nw) ==
  LET u == CurrentWindowHandle(t, f, nw)
  IN  IF Raised(u) THEN u ELSE [u EXCEPT !.h = u.eng.handles[1]]

\* variant: the active handle is read and then switched to
ActiveHandle_Switching(t, f, nw) ==
  LET u == CurrentWindowHandle(t, f, nw)
  IN  SwitchToWindow(u, f, nw, u.h)

\* target_handle = self.driver.current_window_handle: what no target resolves
\* to in get_specific_tab_page_content and close_specific_tab
ActiveHandle(t, f, nw) == CurrentWindowHandle(t, f, nw)

\* lines 337-360: the resolution written in get_specific_tab_page_content
ResolveContent(target, all_handles) ==
  IF IsInstanceInt(target)
    THEN IF 0 <= IntValue(target) /\ IntValue(target) < Len(all_handles)
           THEN [ok |-> TRUE, handle |-> all_handles[IntValue(target) + 1], msg |-> Msg("")]
           ELSE [ok |-> FALSE, handle |-> "",
                 msg |-> [Msg("Tab index is invalid, only tabs exist currently")
                            EXCEPT !.count = <<Len(all_handles)>>]]
  ELSE IF IsInstanceStr(target)
    THEN IF InList(target.s, all_handles)
           THEN [ok |-> TRUE, handle |-> target.s, msg |-> Msg("")]
           ELSE [ok |-> FALSE, handle |-> "",
                 msg |-> Msg("Tab handle is invalid, not in the current tab list")]
  ELSE [ok |-> FALSE, handle |-> "",
        msg |-> Msg("Invalid parameter type, supports int (index) or str (handle)")]

\* target_info of get_specific_tab_page_content
TargetInfo(target, h, content_length) ==
  IF target = NoneT
    THEN [target_type |-> "current_active", target_handle |-> h,
          target_handle_abbr |-> Abbr(h), content_length |-> content_length]
    ELSE [target_type |-> IF IsInstanceInt(target) THEN "index" ELSE "handle",
          input_target |-> target, target_handle |-> h,
          target_handle_abbr |-> Abbr(h), content_length |-> content_length]

\* the envelope get_specific_tab_page_content returns
ContentEnvelope(t, target) ==
  IF t.exc.cls = "WebDriverException"
    THEN Failed(500, Wrap("Failed to get tab page content (WebDriver exception)", t.exc.msg),
                [input_target |-> target])
  ELSE IF Raised(t)
    THEN Failed(500, Wrap("Failed to get tab page content", t.exc.msg),
                [input_target |-> target])
  ELSE Success(Msg("Successfully retrieved target tab page content"),
               TargetInfo(target, t.h, Len(t.text)), StrV(t.text))

get_specific_tab_page_content(d, e, target, f, nw) ==
  LET t1 == DriverGuard(Thread(e), d)
      a2 == ActiveHandle(t1, f, nw)
      b2 == WindowHandles(t1, f, nw)
      b3 == Resolved(b2, ResolveContent(target, b2.hs))
      b4 == SwitchToWindow(b3, f, nw, b3.h)
      t4 == IF target = NoneT THEN a2 ELSE b4
      t5 == PageSource(t4, f, nw)
  IN  Done(t5, d, ContentEnvelope(t5, target))

\* the body shared by scroll_mouse_wheel_down ("" before the distance) and
\* scroll_mouse_wheel_up ("-" before the distance)
\* the envelope scroll_mouse_wheel_down / scroll_mouse_wheel_up return
ScrollEnvelope(t, direction, scroll_distance, target_tab) ==
  LET faildetail == [scroll_distance |-> scroll_distance, target_tab |-> target_tab]
  IN  IF t.exc.cls = "WebDriverException"
        THEN Failed(500, Wrap("Failed to scroll mouse wheel " \o direction \o " (WebDriver exception)",
                              t.exc.msg), faildetail)
      ELSE IF Raised(t)
        THEN Failed(500, Wrap("Failed to scroll mouse wheel " \o direction, t.exc.msg),
                    faildetail)
      ELSE Success(Msg("Mouse wheel scrolled " \o direction \o " successfully"),
                   [scroll_direction |-> direction,
                    scroll_distance |-> scroll_distance,
                    target_tab |-> target_tab,
                    switch_status |-> IF target_tab # NoneT
                                        THEN "Successfully switched to target tab"
                                        ELSE ""],
                   NoneV)

ScrollWheel(d, e, prefix, direction, scroll_distance, target_tab, f, nw) ==
  LET t1 == DriverGuard(Thread(e), d)
      t2 == IF target_tab # NoneT THEN NestedSwitch(t1, d, target_tab, f, nw, "") ELSE t1
      t3 == ScrollBy(t2, f, nw, prefix, ToString(scroll_distance))
  IN  Done(t3, d, ScrollEnvelope(t3, direction, scroll_distance, target_tab))

scroll_mouse_wheel_down(d, e, scroll_distance, target_tab, f, nw) ==
  ScrollWheel(d, e, "", "down", scroll_distance, target_tab, f, nw)

scroll_mouse_wheel_up(d, e, scroll_distance, target_tab, f, nw) ==
  ScrollWheel(d, e, "-", "up", scroll_distance, target_tab, f, nw)

\* keys of supported_locators
SupportedLocators ==
  {"id", "xpath", "name", "class_name", "css_selector", "tag_name", "link_text",
   "partial_link_text"}

\* variant: the WebDriverException clause comes first and so also catches
\* its subclass NoSuchElementException
ClickEnvelope_WebDriverFirst(t, okdetail, faildetail) ==
  IF t.exc.cls \in {"WebDriverException", "TimeoutException", "NoSuchElementException"}
    THEN Failed(500, Wrap("Failed to click element (WebDriver exception)", t.exc.msg),
                [faildetail EXCEPT !.error_type = "WebDriverException"])
  ELSE IF Raised(t)
    THEN Failed(500, Wrap("Failed to click element", t.exc.msg),
                [faildetail EXCEPT !.error_type = "GeneralException"])
  ELSE Success(Msg("Element located and clicked successfully"), okdetail, NoneV)

\* the except clauses shared by click_element_by_xpath and click_element
ClickEnvelope(t, okdetail, faildetail) ==
  IF t.exc.cls = "NoSuchElementException"
    THEN Failed(404, Wrap("Element not found", t.exc.msg),
                [faildetail EXCEPT !.error_type = "NoSuchElementException"])
  ELSE IF t.exc.cls \in {"WebDriverException", "TimeoutException"}
    THEN Failed(500, Wrap("Failed to click element (WebDriver exception)", t.exc.msg),
                [faildetail EXCEPT !.error_type = "WebDriverException"])
  ELSE IF Raised(t)
    THEN Failed(500, Wrap("Failed to click element", t.exc.msg),
                [faildetail EXCEPT !.error_type = "GeneralException"])
  ELSE Success(Msg("Element located and clicked successfully"), okdetail, NoneV)

\* the envelope click_element_by_xpath returns
XpathClickEnvelope(t, xpath, target_tab) ==
  ClickEnvelope(t,
    [xpath_expression |-> xpath, target_tab |-> target_tab,
     operation_status |-> "completed_successfully",
     switch_status |-> IF target_tab # NoneT THEN "Successfully switched to target tab"
                       ELSE ""],
    [xpath_expression |-> xpath, target_tab |-> target_tab, error_type |-> ""])

click_element_by_xpath(d, e, xpath, target_tab, f, nw) ==
  LET t1 == DriverGuard(Thread(e), d)
      t2 == IF InvalidText(xpath)
              THEN RaiseException(t1, Msg("Invalid XPath expression: it must be a non-empty string"))
              ELSE t1
      t3 == IF target_tab # NoneT
              THEN NestedSwitch(t2, d, target_tab, f, nw, "Failed to switch to target tab")
              ELSE t2
      t4 == FindElement(t3, f, nw, "xpath", xpath)
      t5 == ElementClick(t4, f, nw)
  IN  Done(t5, d, XpathClickEnvelope(t5, xpath, target_tab))

\* the envelope click_element returns
LocatorClickEnvelope(t, locator, locator_type, target_tab) ==
  ClickEnvelope(t,
    [locator_type |-> locator_type, locator_expression |-> locator,
     target_tab |-> target_tab, operation_status |-> "completed_successfully",
     switch_status |-> IF target_tab # NoneT THEN "Successfully switched to target tab"
                       ELSE ""],
    [locator_type |-> locator_type, locator_expression |-> locator,
     target_tab |-> target_tab, error_type |-> ""])

click_element(d, e, locator, locator_type, target_tab, f, nw) ==
  LET t1 == DriverGuard(Thread(e), d)
      t2 == IF locator_type \notin SupportedLocators
              THEN RaiseException(t1, Msg("Unsupported locator type"))
              ELSE t1
      t3 == IF InvalidText(locator)
              THEN RaiseException(t2, Msg("Invalid locator expression: it must be a non-empty string"))
              ELSE t2
      t4 == IF target_tab # NoneT
              THEN NestedSwitch(t3, d, target_tab, f, nw, "Failed to switch to target tab")
              ELSE t3
      t5 == FindElement(t4, f, nw, locator_type, locator)
      t6 == ScrollIntoView(t5, f, nw)
      t7 == ElementClick(t6, f, nw)
  IN  Done(t7, d, LocatorClickEnvelope(t7, locator, locator_type, target_tab))

\* variant: an index below zero counts from the end of the list, as a plain
\* all_handles[target] would
ResolveClose_NegativeIndex(target, all_handles) ==
  IF IsInstanceInt(target)
    THEN IF 0 - Len(all_handles) <= IntValue(target) /\ IntValue(target) < Len(all_handles)
           THEN [ok |-> TRUE,
                 handle |-> all_handles[((IntValue(target) + Len(all_handles))
                                           % Len(all_handles)) + 1],
                 msg |-> Msg("")]
           ELSE [ok |-> FALSE, handle |-> "",
                 msg |-> [Msg("Tab index is invalid, only tabs exist currently")
                            EXCEPT !.count = <<Len(all_handles)>>]]
  ELSE IF IsInstanceStr(target)
    THEN IF InList(target.s, all_handles)
           THEN [ok |-> TRUE, handle |-> target.s, msg |-> Msg("")]
           ELSE [ok |-> FALSE, handle |-> "",
                 msg |-> Msg("Tab handle is invalid, not in the current tab list")]
  ELSE [ok |-> FALSE, handle |-> "",
        msg |-> Msg("Invalid parameter type, supports int (index) or str (handle)")]

\* lines 734-751: the resolution written in close_specific_tab (target given)
ResolveClose(target, all_handles) ==
  IF IsInstanceInt(target)
    THEN IF 0 <= IntValue(target) /\ IntValue(target) < Len(all_handles)
           THEN [ok |-> TRUE, handle |-> all_handles[IntValue(target) + 1], msg |-> Msg("")]
           ELSE [ok |-> FALSE, handle |-> "",
                 msg |-> [Msg("Tab index is invalid, only tabs exist currently")
                            EXCEPT !.count = <<Len(all_handles)>>]]
  ELSE IF IsInstanceStr(target)
    THEN IF InList(target.s, all_handles)
           THEN [ok |-> TRUE, handle |-> target.s, msg |-> Msg("")]
           ELSE [ok |-> FALSE, handle |-> "",
                 msg |-> Msg("Tab handle is invalid, not in the current tab list")]
  ELSE [ok |-> FALSE, handle |-> "",
        msg |-> Msg("Invalid parameter type, supports int (index) or str (handle)")]

\* variant: nothing is done after the close
PostCloseSwitch_Skipped(t, f, nw) == t

\* lines 763-769: after closing a tab that was not the last one, switch to
\* the first handle of the list fetched again
PostCloseSwitch(t, f, nw) ==
  LET t1 == WindowHandles(t, f, nw)
      t2 == IF Raised(t1) THEN t1 ELSE [t1 EXCEPT !.rest = t1.hs, !.hs = t.hs]
  IN  IF Raised(t2) \/ Len(t2.rest) = 0 THEN t2
      ELSE SwitchToWindow(t2, f, nw, t2.rest[1])

\* the except clauses of close_specific_tab: the WebDriverException handler
\* clears self.driver when str(e) names a discarded context or a missing window
ContextLostCaught(t) ==
  /\ t.exc.cls \in {"WebDriverException", "TimeoutException", "NoSuchElementException"}
  /\ t.exc.kind = "ctx"

\* the envelope close_specific_tab returns (all_handles in t.hs, the handles
\* fetched after the close in t.rest)
CloseEnvelope(t, target) ==
  LET tab_count_before_close == Len(t.hs)
      close_handle == t.h
      is_last_tab == tab_count_before_close = 1
      switched == ~is_last_tab /\ Len(t.rest) > 0
  IN  IF t.exc.cls \in {"WebDriverException", "TimeoutException", "NoSuchElementException"}
        THEN IF t.exc.kind = "ctx"
               THEN Failed(500, Msg("Browsing context invalidated (tab/browser closed), cannot continue operation"),
                           [input_target |-> target, error_type |-> "WebDriverException",
                            error_detail |-> "Browsing context invalidated (tab/browser closed), cannot continue operation"])
               ELSE Failed(500, Wrap("Failed to close specific tab", t.exc.msg),
                           [input_target |-> target, error_type |-> "WebDriverException",
                            error_detail |-> "engine"])
      ELSE IF Raised(t)
        THEN Failed(500, Wrap("Failed to close specific tab", t.exc.msg),
                    [input_target |-> target])
      ELSE Success(Msg("Successfully closed tab"),
                   [tab_count_before_close |-> tab_count_before_close,
                    input_target |-> target,
                    target_type |-> IF target = NoneT THEN "current_active"
                                    ELSE IF IsInstanceInt(target) THEN "index"
                                    ELSE "handle",
                    closed_handle |-> close_handle,
                    closed_handle_abbr |-> Abbr(close_handle),
                    is_last_tab |-> is_last_tab,
                    post_close_operation |->
                      IF is_last_tab
                        THEN "Closed the last tab, browser window exited, driver context invalidated"
                      ELSE IF switched
                        THEN "Automatically switched to the first remaining tab"
                      ELSE "",
                    switched_to_remaining_handle |-> IF switched THEN t.rest[1] ELSE ""],
                   NoneV)

close_specific_tab(d, e, target, f, nw) ==
  LET t1 == DriverGuard(Thread(e), d)
      t2 == WindowHandles(t1, f, nw)
      tab_count_before_close == Len(t2.hs)
      t3 == IF ~Raised(t2) /\ tab_count_before_close = 0
              THEN RaiseException(t2, Msg("No available tabs to close currently"))
              ELSE t2
      t4 == IF target = NoneT THEN ActiveHandle(t3, f, nw)
            ELSE Resolved(t3, ResolveClose(target, t3.hs))
      t5 == SwitchToWindow(t4, f, nw, t4.h)
      is_last_tab == tab_count_before_close = 1
      t6 == DriverClose(t5, f, nw)
      t7 == IF ~is_last_tab THEN PostCloseSwitch(t6, f, nw) ELSE t6
  IN  Done(t7,
           IF Raised(t7) THEN SessionAfter(d, ContextLostCaught(t7))
           ELSE SessionAfter(d, is_last_tab),
           CloseEnvelope(t7, target))

\* variant: quit() is called whatever self.driver is
quit_browser_Unguarded(d, e, f, nw) ==
  LET t1 == DriverQuit(Thread(e), f, nw)
  IN  IF Raised(t1)
        THEN Done(t1, d, Failed(500, Wrap("Failed to quit browser", t1.exc.msg), NoneV))
        ELSE Done(t1, "None",
                  Success(Msg("Browser exited successfully, resources released"), NoneV, NoneV))

\* variant: self.driver is cleared before quit() is called
quit_browser_ClearsFirst(d, e, f, nw) ==
  LET t1 == IF d # "None" THEN DriverQuit(Thread(e), f, nw) ELSE Thread(e)
  IN  IF Raised(t1)
        THEN Done(t1, "None", Failed(500, Wrap("Failed to quit browser", t1.exc.msg), NoneV))
        ELSE Done(t1, SessionAfter(d, d # "None"),
                  Success(Msg("Browser exited successfully, resources released"), NoneV, NoneV))

\* the envelope quit_browser returns
QuitEnvelope(t) ==
  IF Raised(t)
    THEN Failed(500, Wrap("Failed to quit browser", t.exc.msg), NoneV)
    ELSE Success(Msg("Browser exited successfully, resources released"), NoneV, NoneV)

quit_browser(d, e, f, nw) ==
  LET t1 == IF d # "None" THEN DriverQuit(Thread(e), f, nw) ELSE Thread(e)
  IN  Done(t1, IF Raised(t1) THEN d ELSE SessionAfter(d, d # "None"), QuitEnvelope(t1))

----------------------------------------------------------------------------
(* Construction and the module-level tool functions *)

\* the three engine calls of _init_browser
InitCalls == <<"webdriver.Remote", "set_page_load_timeout", "implicitly_wait">>

\* __init__ and _init_browser: self.driver is assigned as soon as
\* webdriver.Remote returns, before the two timeout calls
InitBrowser(f) ==
  LET made == IF f.at = 0 THEN Len(InitCalls) ELSE f.at
      calls == [k \in 1..made |-> Call(InitCalls[k], "", 0)]
      connected == f.at # 1
  IN  [driver |-> IF connected THEN "WebDriver" ELSE "None",
       eng |-> IF connected THEN NewSession ELSE NoSession,
       env |-> IF f.at = 0
                 THEN Success(Msg("Browser initialized successfully"), NoneV, NoneV)
                 ELSE Failed(500, Wrap("Browser initialization failed", Msg("engine")), NoneV),
       calls |-> calls,
       fault |-> IF f.at = 0 THEN "none" ELSE "other",
       all_handles |-> <<>>,
       h |-> ""]

InitFaults == {NoFault} \cup {[at |-> k, kind |-> "other"] : k \in 1..Len(InitCalls)}

\* fail_json of the tool functions' `if browser is None` branch
GuardEnvelope(detail) == Failed(500, Msg("browser instance not initialized"), detail)

\* a tool function: `if browser is None: return <failed envelope>`, else the
\* method of the instance
Tool(d, e, r, detail) ==
  IF browser = "None"
    THEN [driver |-> d, eng |-> e,
          env |-> GuardEnvelope(detail),
          calls |-> <<>>, fault |-> "none", all_handles |-> <<>>, h |-> ""]
    ELSE r

----------------------------------------------------------------------------
(* Inputs of the tool calls *)

\* variant: no target by default
DefaultTarget_Absent == NoneT

\* open_url_in_specific_tab(url, target=0): the target of a call made without one
DefaultTarget == IntT(0)

\* argument values the calls draw from
Urls == {StrT("https://example.com"), StrT(""), NoneT}

\* scroll_distance=500
DefaultDistance == 500

Distances == {-3, 0, DefaultDistance}

Locators == {StrT("//button[@id='missing']"), StrT(""), NoneT}

LocatorTypes == {"xpath", "unknown"}

\* engine failures injected into an operation that makes at most n calls;
\* extra holds the failures particular to one of its calls
FaultsUpTo(n, extra) ==
  {NoFault} \cup [at : 1..n, kind : {"ctx", "other"}] \cup extra

\* targets tried together with an injected failure
FaultTargets == {NoneT, IntT(0), IntT(1)}

\* the (target, failure) pairs a call draws from
Inputs(n, extra) ==
  (Targets \X {NoFault}) \cup (FaultTargets \X FaultsUpTo(n, extra))

\* argument values paired with (target, failure): every pair with the usual
\* argument, and every argument with a fault-free call on the current and on
\* the first tab
ArgInputs(args, usual, n, extra) ==
  ({usual} \X Inputs(n, extra)) \cup (args \X ({NoneT, IntT(0)} \X {NoFault}))

\* str(e) of a no-such-window error is only drawn when there is no current window
NoWindow(e) == IF HasCurrent(e) THEN {"ctx"} ELSE NoWindowKinds

\* what a call found when it started: self.driver, the open tabs and the
\* engine's current window
Before(d, e) == [driver |-> d, handles |-> e.handles, current |-> e.current]

\* a tool call started in session state (d, e), and what it leaves behind
Outcome(op, target, arg, d, e, r) ==
  [driver |-> r.driver, eng |-> r.eng,
   call |-> [op |-> op, target |-> target, arg |-> arg, pre |-> Before(d, e),
             env |-> r.env, calls |-> r.calls, fault |-> r.fault,
             all_handles |-> r.all_handles, h |-> r.h]]

\* the outcomes of every call of each tool function in session state (d, e)
CreateNewTabCalls(d, e) ==
  {Outcome("create_new_tab", NoneT, NoneV, d, e,
           Tool(d, e, create_new_tab(d, e, f, nw), NoneV)) :
     f \in FaultsUpTo(1, {}), nw \in NoWindow(e)}

GetAllTabsCalls(d, e) ==
  {Outcome("get_all_tabs", NoneT, NoneV, d, e,
           Tool(d, e, get_all_tabs(d, e, f, nw), NoneV)) :
     f \in FaultsUpTo(2, {}), nw \in NoWindow(e)}

GetActiveTabCalls(d, e) ==
  {Outcome("get_active_tab", NoneT, NoneV, d, e,
           Tool(d, e, get_active_tab(d, e, f, nw), NoneV)) :
     f \in FaultsUpTo(2, {}), nw \in NoWindow(e)}

SwitchToSpecificTabCalls(d, e) ==
  {Outcome("switch_to_specific_tab", in[1], NoneV, d, e,
           Tool(d, e, switch_to_specific_tab(d, e, in[1], in[2], nw),
                [input_target |-> in[1]])) :
     in \in Inputs(2, {}), nw \in NoWindow(e)}

OpenUrlInSpecificTabCalls(d, e) ==
  {Outcome("open_url_in_specific_tab", a[2][1], [url |-> a[1]], d, e,
           Tool(d, e, open_url_in_specific_tab(d, e, a[1], a[2][1], a[2][2], nw),
                [target_tab |-> a[2][1], input_url |-> a[1]])) :
     a \in ArgInputs(Urls, StrT("https://example.com"), 3,
                     {[at |-> 3, kind |-> "timeout"]}),
     nw \in NoWindow(e)}

GetSpecificTabPageContentCalls(d, e) ==
  {Outcome("get_specific_tab_page_content", in[1], NoneV, d, e,
           Tool(d, e, get_specific_tab_page_content(d, e, in[1], in[2], nw),
                [input_target |-> in[1]])) :
     in \in Inputs(3, {}), nw \in NoWindow(e)}

ScrollMouseWheelDownCalls(d, e) ==
  {Outcome("scroll_mouse_wheel_down", a[2][1], [scroll_distance |-> a[1]], d, e,
           Tool(d, e, scroll_mouse_wheel_down(d, e, a[1], a[2][1], a[2][2], nw),
                [scroll_distance |-> a[1], target_tab |-> a[2][1]])) :
     a \in ArgInputs(Distances, DefaultDistance, 3, {}), nw \in NoWindow(e)}

ScrollMouseWheelUpCalls(d, e) ==
  {Outcome("scroll_mouse_wheel_up", a[2][1], [scroll_distance |-> a[1]], d, e,
           Tool(d, e, scroll_mouse_wheel_up(d, e, a[1], a[2][1], a[2][2], nw),
                [scroll_distance |-> a[1], target_tab |-> a[2][1]])) :
     a \in ArgInputs(Distances, DefaultDistance, 3, {}), nw \in NoWindow(e)}

ClickElementByXpathCalls(d, e) ==
  {Outcome("click_element_by_xpath", a[2][1], [xpath |-> a[1]], d, e,
           Tool(d, e, click_element_by_xpath(d, e, a[1], a[2][1], a[2][2], nw),
                [xpath_expression |-> a[1], target_tab |-> a[2][1]])) :
     a \in ArgInputs(Locators, StrT("//button[@id='missing']"), 4,
                     {[at |-> k, kind |-> "nosuch"] : k \in {1, 3}}),
     nw \in NoWindow(e)}

ClickElementCalls(d, e) ==
  {Outcome("click_element", a[2][1],
           [locator |-> a[1][1], locator_type |-> a[1][2]], d, e,
           Tool(d, e, click_element(d, e, a[1][1], a[1][2], a[2][1], a[2][2], nw),
                [locator_expression |-> a[1][1], locator_type |-> a[1][2],
                 target_tab |-> a[2][1]])) :
     a \in ArgInputs(Locators \X LocatorTypes,
                     <<StrT("//button[@id='missing']"), "xpath">>, 5,
                     {[at |-> k, kind |-> "nosuch"] : k \in {1, 3}}),
     nw \in NoWindow(e)}

CloseSpecificTabCalls(d, e) ==
  {Outcome("close_specific_tab", in[1], NoneV, d, e,
           Tool(d, e, close_specific_tab(d, e, in[1], in[2], nw),
                [input_target |-> in[1]])) :
     in \in Inputs(MaxCalls, {}), nw \in NoWindow(e)}

QuitBrowserCalls(d, e) ==
  {Outcome("quit_browser", NoneT, NoneV, d, e,
           Tool(d, e, quit_browser(d, e, f, nw), NoneV)) :
     f \in FaultsUpTo(1, {}), nw \in NoWindow(e)}

\* every call of every tool function other than quit_browser
OperationCalls(d, e) ==
  CreateNewTabCalls(d, e) \cup GetAllTabsCalls(d, e) \cup GetActiveTabCalls(d, e)
    \cup SwitchToSpecificTabCalls(d, e) \cup OpenUrlInSpecificTabCalls(d, e)
    \cup GetSpecificTabPageContentCalls(d, e) \cup ScrollMouseWheelDownCalls(d, e)
    \cup ScrollMouseWheelUpCalls(d, e) \cup ClickElementByXpathCalls(d, e)
    \cup ClickElementCalls(d, e) \cup CloseSpecificTabCalls(d, e)

----------------------------------------------------------------------------
(* State machine: one action per tool call, and the return of its envelope *)

\* no envelope is waiting to be handed to the caller
Idle ==
  [op |-> "", target |-> NoneT, arg |-> NoneV, pre |-> Before("None", NoSession),
   env |-> NoneV, calls |-> <<>>, fault |-> "none", all_handles |-> <<>>, h |-> ""]

Init ==
  \E f \in InitFaults :
    /\ browser = "FirefoxAutoBrowser"
    /\ driver = InitBrowser(f).driver
    /\ eng = InitBrowser(f).eng
    /\ last = Outcome("_init_browser", NoneT, NoneV, "None", NoSession,
                      InitBrowser(f)).call
    /\ inflight = <<>>

\* a tool call runs when no other is in flight (section 5 of the design:
\* at most one in-flight operation)
Apply(c) ==
  /\ driver' = c.driver
  /\ eng' = c.eng
  /\ last' = c.call
  /\ UNCHANGED <<browser, inflight>>

\* return json.dumps(...): the envelope goes to the caller and is not kept
Return ==
  /\ last # Idle
  /\ last' = Idle
  /\ UNCHANGED <<browser, driver, eng, inflight>>

CreateNewTab ==
  /\ last = Idle
  /\ driver = "None" \/ eng.issued < MaxHandles
  /\ \E c \in CreateNewTabCalls(driver, eng) : Apply(c)

GetAllTabs == last = Idle /\ \E c \in GetAllTabsCalls(driver, eng) : Apply(c)

GetActiveTab == last = Idle /\ \E c \in GetActiveTabCalls(driver, eng) : Apply(c)

SwitchToSpecificTab ==
  last = Idle /\ \E c \in SwitchToSpecificTabCalls(driver, eng) : Apply(c)

OpenUrlInSpecificTab ==
  last = Idle /\ \E c \in OpenUrlInSpecificTabCalls(driver, eng) : Apply(c)

GetSpecificTabPageContent ==
  last = Idle /\ \E c \in GetSpecificTabPageContentCalls(driver, eng) : Apply(c)

ScrollMouseWheelDown ==
  last = Idle /\ \E c \in ScrollMouseWheelDownCalls(driver, eng) : Apply(c)

ScrollMouseWheelUp ==
  last = Idle /\ \E c \in ScrollMouseWheelUpCalls(driver, eng) : Apply(c)

ClickElementByXpath ==
  last = Idle /\ \E c \in ClickElementByXpathCalls(driver, eng) : Apply(c)

ClickElement == last = Idle /\ \E c \in ClickElementCalls(driver, eng) : Apply(c)

CloseSpecificTab ==
  last = Idle /\ \E c \in CloseSpecificTabCalls(driver, eng) : Apply(c)

QuitBrowser == last = Idle /\ \E c \in QuitBrowserCalls(driver, eng) : Apply(c)

Next ==
  \/ CreateNewTab
  \/ GetAllTabs
  \/ GetActiveTab
  \/ SwitchToSpecificTab
  \/ OpenUrlInSpecificTab
  \/ GetSpecificTabPageContent
  \/ ScrollMouseWheelDown
  \/ ScrollMouseWheelUp
  \/ ClickElementByXpath
  \/ ClickElement
  \/ CloseSpecificTab
  \/ QuitBrowser
  \/ Return

Spec == Init /\ [][Next]_vars

TypeOK ==
  /\ browser = "FirefoxAutoBrowser"
  /\ driver \in {"None", "WebDriver"}
  /\ last # Idle => last.env.code \in {200, 404, 500}

----------------------------------------------------------------------------
(* Two tool calls dispatched at the same time: the methods take no lock, so  *)
(* their statements interleave at every engine call                          *)

\* the page loaded in the k-th tab (0-based) before the calls start
PageOf(k) == "https://example.com/" \o ToString(k)

\* the session the calls find: n tabs, each but the first opened with
\* create_new_tab and loaded with open_url_in_specific_tab
RECURSIVE Prepared(_)
Prepared(n) ==
  IF n = 1 THEN NewSession
  ELSE LET e1 == create_new_tab("WebDriver", Prepared(n - 1), NoFault, "ctx").eng
       IN  open_url_in_specific_tab("WebDriver", e1, StrT(PageOf(n - 1)), IntT(n - 1),
                                    NoFault, "ctx").eng

\* the tool calls that run at the same time, and their targets
ConcurrentOps == {"get_specific_tab_page_content", "switch_to_specific_tab"}

ConcurrentTargets == {NoneT} \cup {IntT(k) : k \in 0..(MaxHandles - 1)}

Workers == {1, 2}

\* the frame of a call: its arguments, the statement it is at (pc), its local
\* variables and the calls it issued (t), the envelope it returned, and
\* whether self.driver was None at one of its statements after its guard (lost)
NoFrame ==
  [op |-> "", target |-> NoneT, pc |-> "idle", t |-> Thread(NoSession), env |-> NoneV,
   lost |-> FALSE]

\* a frame's thread on the shared engine, and back
OnEngine(fr) == [fr.t EXCEPT !.eng = eng]

Local(t) == [t EXCEPT !.eng = NoSession]

\* self.driver.<attribute>: AttributeError when self.driver is None
Attribute(t, d) ==
  IF Raised(t) \/ d # "None" THEN t
  ELSE [t EXCEPT !.exc = Exc("AttributeError", "",
                             Msg("'NoneType' object has no attribute"))]

\* the operations that call switch_to_specific_tab when given a target, and
\* the text the two click operations put before its message
NestingOps ==
  {"open_url_in_specific_tab", "scroll_mouse_wheel_down", "scroll_mouse_wheel_up",
   "click_element_by_xpath", "click_element"}

NestedPrefix(op) ==
  IF op \in {"click_element_by_xpath", "click_element"} THEN "Failed to switch to target tab" ELSE ""

\* the first engine call after the switch (or after the guard, with no target)
ActOf(op) ==
  CASE op = "open_url_in_specific_tab" -> "get"
    [] op \in {"scroll_mouse_wheel_down", "scroll_mouse_wheel_up"} -> "window.scrollBy"
    [] op \in {"click_element_by_xpath", "click_element"} -> "find_element"
    [] OTHER -> "page_source"

\* the statement that follows the one at pc when it returns normally
After(op, target, pc, u) ==
  CASE pc = "guard" ->
         IF op = "create_new_tab" THEN "window.open"
         ELSE IF op = "get_active_tab" THEN "current_window_handle"
         ELSE IF op = "get_specific_tab_page_content" /\ target = NoneT
           THEN "current_window_handle"
         ELSE IF op = "open_url_in_specific_tab" THEN "nested_guard"
         ELSE IF op \in NestingOps THEN (IF target = NoneT THEN ActOf(op) ELSE "nested_guard")
         ELSE "window_handles"
    [] pc = "nested_guard" -> "window_handles"
    [] pc = "window_handles" ->
         IF op = "get_all_tabs" THEN "active_handle"
         ELSE IF op = "get_active_tab" THEN "return"
         ELSE IF op = "close_specific_tab" /\ target = NoneT THEN "current_window_handle"
         ELSE "switch_to.window"
    [] pc = "current_window_handle" ->
         IF op = "close_specific_tab" THEN "switch_to.window"
         ELSE IF op = "get_active_tab" THEN "window_handles"
         ELSE "page_source"
    [] pc = "switch_to.window" ->
         IF op = "switch_to_specific_tab" THEN "return"
         ELSE IF op = "close_specific_tab" THEN "close"
         ELSE ActOf(op)
    [] pc = "find_element" ->
         IF op = "click_element" THEN "scrollIntoView" ELSE "element.click"
    [] pc = "scrollIntoView" -> "element.click"
    [] pc = "close" -> IF Len(u.hs) = 1 THEN "clear" ELSE "remaining_handles"
    [] pc = "remaining_handles" -> IF Len(u.rest) > 0 THEN "switch_remaining" ELSE "return"
    [] pc = "quit" -> "clear"
    [] OTHER -> "return"

\* an exception inside the nested switch_to_specific_tab is caught there and
\* comes back as the message of its failed envelope, which the caller raises
Caught(fr, u) ==
  IF Raised(u) /\ fr.op \in NestingOps
       /\ fr.pc \in {"nested_guard", "window_handles", "switch_to.window"}
    THEN [u EXCEPT !.exc =
            Exc("Exception", "",
                IF NestedPrefix(fr.op) = "" THEN SwitchEnvelope(u, fr.target).message
                ELSE Wrap(NestedPrefix(fr.op), SwitchEnvelope(u, fr.target).message))]
    ELSE u

\* the frame after a statement: at the next one, or in its except clause
Stepped(fr, u) ==
  [fr EXCEPT !.t = Local(Caught(fr, u)),
             !.pc = IF Raised(u) THEN "return" ELSE After(fr.op, fr.target, fr.pc, u)]

\* the frame after a statement that reads self.driver on thread t0
Called(fr, t0, u) ==
  [Stepped(fr, u) EXCEPT !.lost = fr.lost \/ (~Raised(t0) /\ driver = "None")]

\* the first statement of a call
Started(op, target) ==
  [NoFrame EXCEPT !.op = op, !.target = target,
                  !.pc = IF op = "quit_browser" THEN "quit_guard" ELSE "guard"]

\* the transport hands a tool call to a worker
Dispatch(i) ==
  /\ inflight[i].pc = "idle"
  /\ \E op \in ConcurrentOps, target \in ConcurrentTargets :
       inflight' = [inflight EXCEPT ![i] = Started(op, target)]
  /\ UNCHANGED <<browser, driver, eng, last>>

\* if not self.driver: raise Exception(...)
Guard(i) ==
  LET fr == inflight[i]
      u == DriverGuard(OnEngine(fr), driver)
  IN  /\ fr.pc = "guard"
      /\ inflight' = [inflight EXCEPT ![i] = Stepped(fr, u)]
      /\ UNCHANGED <<browser, driver, eng, last>>

\* all_handles = self.driver.window_handles, with close_specific_tab's test
\* of the number of tabs and get_active_tab's all_handles.index(...)
CallWindowHandles(i) ==
  LET fr == inflight[i]
      t0 == OnEngine(fr)
      u == WindowHandles(Attribute(t0, driver), NoFault, "ctx")
      v == IF fr.op = "close_specific_tab" /\ ~Raised(u) /\ Len(u.hs) = 0
             THEN RaiseException(u, Msg("No available tabs to close currently"))
           ELSE IF fr.op = "get_active_tab" THEN IndexChecked(u)
           ELSE u
  IN  /\ fr.pc = "window_handles"
      /\ inflight' = [inflight EXCEPT ![i] = Called(fr, t0, v)]
      /\ eng' = v.eng
      /\ UNCHANGED <<browser, driver, last>>

\* current_handle = self.driver.current_window_handle
CallCurrentWindowHandle(i) ==
  LET fr == inflight[i]
      t0 == OnEngine(fr)
  IN  /\ fr.pc = "current_window_handle"
      /\ \E nw \in NoWindowKinds :
           LET u == ActiveHandle(Attribute(t0, driver), NoFault, nw)
           IN  /\ inflight' = [inflight EXCEPT ![i] = Called(fr, t0, u)]
               /\ eng' = u.eng
      /\ UNCHANGED <<browser, driver, last>>

\* the resolution of target against all_handles
Resolution(fr, t) ==
  IF fr.op \in NestingOps \cup {"switch_to_specific_tab"}
    THEN Resolved(t, ResolveSwitch(fr.target, fr.t.hs))
  ELSE IF fr.op = "get_specific_tab_page_content"
    THEN Resolved(t, ResolveContent(fr.target, fr.t.hs))
  ELSE IF fr.target = NoneT THEN t
  ELSE Resolved(t, ResolveClose(fr.target, fr.t.hs))

\* the resolution, then self.driver.switch_to.window(target_handle)
CallSwitchToWindow(i) ==
  LET fr == inflight[i]
      t0 == Resolution(fr, OnEngine(fr))
  IN  /\ fr.pc = "switch_to.window"
      /\ \E nw \in NoWindowKinds :
           LET u == SwitchToWindow(Attribute(t0, driver), NoFault, nw, t0.h)
           IN  /\ inflight' = [inflight EXCEPT ![i] = Called(fr, t0, u)]
               /\ eng' = u.eng
      /\ UNCHANGED <<browser, driver, last>>

\* page_content = self.driver.page_source
CallPageSource(i) ==
  LET fr == inflight[i]
      t0 == OnEngine(fr)
  IN  /\ fr.pc = "page_source"
      /\ \E nw \in NoWindowKinds :
           LET u == PageSource(Attribute(t0, driver), NoFault, nw)
           IN  /\ inflight' = [inflight EXCEPT ![i] = Called(fr, t0, u)]
               /\ eng' = u.eng
      /\ UNCHANGED <<browser, driver, last>>

\* self.driver.execute_script("window.open('');")
CallWindowOpen(i) ==
  LET fr == inflight[i]
      t0 == OnEngine(fr)
  IN  /\ fr.pc = "window.open"
      /\ \E nw \in NoWindowKinds :
           LET u == WindowOpen(Attribute(t0, driver), NoFault, nw)
           IN  /\ inflight' = [inflight EXCEPT ![i] = Called(fr, t0, u)]
               /\ eng' = u.eng
      /\ UNCHANGED <<browser, driver, last>>

\* the inner try of get_all_tabs: active_handle = self.driver.current_window_handle,
\* and None when that raises anything
CallActiveHandle(i) ==
  LET fr == inflight[i]
      t0 == OnEngine(fr)
  IN  /\ fr.pc = "active_handle"
      /\ \E nw \in NoWindowKinds :
           LET u == CurrentWindowHandle(Attribute(t0, driver), NoFault, nw)
               v == IF Raised(u) THEN [u EXCEPT !.exc = NoExc, !.h = ""] ELSE u
           IN  /\ inflight' = [inflight EXCEPT ![i] = Called(fr, t0, v)]
               /\ eng' = v.eng
      /\ UNCHANGED <<browser, driver, last>>

\* self.driver.close()
CallClose(i) ==
  LET fr == inflight[i]
      t0 == OnEngine(fr)
  IN  /\ fr.pc = "close"
      /\ \E nw \in NoWindowKinds :
           LET u == DriverClose(Attribute(t0, driver), NoFault, nw)
           IN  /\ inflight' = [inflight EXCEPT ![i] = Called(fr, t0, u)]
               /\ eng' = u.eng
      /\ UNCHANGED <<browser, driver, last>>

\* remaining_handles = self.driver.window_handles
CallRemainingHandles(i) ==
  LET fr == inflight[i]
      t0 == OnEngine(fr)
      u == WindowHandles(Attribute(t0, driver), NoFault, "ctx")
      v == IF Raised(u) THEN u ELSE [u EXCEPT !.rest = u.hs, !.hs = fr.t.hs]
  IN  /\ fr.pc = "remaining_handles"
      /\ inflight' = [inflight EXCEPT ![i] = Called(fr, t0, v)]
      /\ eng' = v.eng
      /\ UNCHANGED <<browser, driver, last>>

\* self.driver.switch_to.window(remaining_handles[0])
CallSwitchRemaining(i) ==
  LET fr == inflight[i]
      t0 == OnEngine(fr)
  IN  /\ fr.pc = "switch_remaining"
      /\ \E nw \in NoWindowKinds :
           LET u == SwitchToWindow(Attribute(t0, driver), NoFault, nw, fr.t.rest[1])
           IN  /\ inflight' = [inflight EXCEPT ![i] = Called(fr, t0, u)]
               /\ eng' = u.eng
      /\ UNCHANGED <<browser, driver, last>>

\* the guard of the nested switch_to_specific_tab
NestedGuard(i) ==
  LET fr == inflight[i]
      t0 == OnEngine(fr)
      u == DriverGuard(t0, driver)
  IN  /\ fr.pc = "nested_guard"
      /\ inflight' = [inflight EXCEPT ![i] = Called(fr, t0, u)]
      /\ UNCHANGED <<browser, driver, eng, last>>

\* self.driver.get(url)
CallGet(i) ==
  LET fr == inflight[i]
      t0 == OnEngine(fr)
  IN  /\ fr.pc = "get"
      /\ \E nw \in NoWindowKinds :
           LET u == DriverGet(Attribute(t0, driver), NoFault, nw, StrT("https://example.com").s)
           IN  /\ inflight' = [inflight EXCEPT ![i] = Called(fr, t0, u)]
               /\ eng' = u.eng
      /\ UNCHANGED <<browser, driver, last>>

\* self.driver.execute_script(f"window.scrollBy(0, {scroll_distance});")
CallScrollBy(i) ==
  LET fr == inflight[i]
      t0 == OnEngine(fr)
  IN  /\ fr.pc = "window.scrollBy"
      /\ \E nw \in NoWindowKinds :
           LET u == ScrollBy(Attribute(t0, driver), NoFault, nw,
                             IF fr.op = "scroll_mouse_wheel_up" THEN "-" ELSE "",
                             ToString(DefaultDistance))
           IN  /\ inflight' = [inflight EXCEPT ![i] = Called(fr, t0, u)]
               /\ eng' = u.eng
      /\ UNCHANGED <<browser, driver, last>>

\* target_element = self.driver.find_element(by, locator)
CallFindElement(i) ==
  LET fr == inflight[i]
      t0 == OnEngine(fr)
  IN  /\ fr.pc = "find_element"
      /\ \E nw \in NoWindowKinds :
           LET u == FindElement(Attribute(t0, driver), NoFault, nw, "xpath", StrT("//button[@id='missing']"))
           IN  /\ inflight' = [inflight EXCEPT ![i] = Called(fr, t0, u)]
               /\ eng' = u.eng
      /\ UNCHANGED <<browser, driver, last>>

\* self.driver.execute_script("arguments[0].scrollIntoView(...)", target_element)
CallScrollIntoView(i) ==
  LET fr == inflight[i]
      t0 == OnEngine(fr)
  IN  /\ fr.pc = "scrollIntoView"
      /\ \E nw \in NoWindowKinds :
           LET u == ScrollIntoView(Attribute(t0, driver), NoFault, nw)
           IN  /\ inflight' = [inflight EXCEPT ![i] = Called(fr, t0, u)]
               /\ eng' = u.eng
      /\ UNCHANGED <<browser, driver, last>>

\* target_element.click(): the element holds the engine session itself, so
\* the call does not read self.driver
CallElementClick(i) ==
  LET fr == inflight[i]
      t0 == OnEngine(fr)
  IN  /\ fr.pc = "element.click"
      /\ \E nw \in NoWindowKinds :
           LET u == ElementClick(t0, NoFault, nw)
           IN  /\ inflight' = [inflight EXCEPT ![i] = Called(fr, t0, u)]
               /\ eng' = u.eng
      /\ UNCHANGED <<browser, driver, last>>

\* quit_browser: if self.driver:
QuitGuard(i) ==
  LET fr == inflight[i]
  IN  /\ fr.pc = "quit_guard"
      /\ inflight' = [inflight EXCEPT ![i].pc = IF driver # "None" THEN "quit" ELSE "return"]
      /\ UNCHANGED <<browser, driver, eng, last>>

\* self.driver.quit()
CallQuit(i) ==
  LET fr == inflight[i]
      t0 == OnEngine(fr)
      u == DriverQuit(Attribute(t0, driver), NoFault, "ctx")
  IN  /\ fr.pc = "quit"
      /\ inflight' = [inflight EXCEPT ![i] = Called(fr, t0, u)]
      /\ eng' = u.eng
      /\ UNCHANGED <<browser, driver, last>>

\* self.driver = None (lines 771 and 824)
ClearDriver(i) ==
  /\ inflight[i].pc = "clear"
  /\ driver' = "None"
  /\ inflight' = [inflight EXCEPT ![i].pc = "return"]
  /\ UNCHANGED <<browser, eng, last>>

\* the envelope of a call whose try block ended as t
EnvelopeOf(fr) ==
  CASE fr.op = "create_new_tab" -> CreateEnvelope(fr.t)
    [] fr.op = "get_all_tabs" -> TabsEnvelope(fr.t)
    [] fr.op = "get_active_tab" -> ActiveEnvelope(fr.t)
    [] fr.op = "open_url_in_specific_tab" -> OpenEnvelope(fr.t, StrT("https://example.com"), fr.target)
    [] fr.op = "scroll_mouse_wheel_down" ->
         ScrollEnvelope(fr.t, "down", DefaultDistance, fr.target)
    [] fr.op = "scroll_mouse_wheel_up" ->
         ScrollEnvelope(fr.t, "up", DefaultDistance, fr.target)
    [] fr.op = "click_element_by_xpath" -> XpathClickEnvelope(fr.t, StrT("//button[@id='missing']"), fr.target)
    [] fr.op = "click_element" ->
         LocatorClickEnvelope(fr.t, StrT("//button[@id='missing']"), "xpath", fr.target)
    [] fr.op = "switch_to_specific_tab" -> SwitchEnvelope(fr.t, fr.target)
    [] fr.op = "get_specific_tab_page_content" -> ContentEnvelope(fr.t, fr.target)
    [] fr.op = "close_specific_tab" -> CloseEnvelope(fr.t, fr.target)
    [] OTHER -> QuitEnvelope(fr.t)

\* return json.dumps(...), from the try block or from an except clause;
\* close_specific_tab's WebDriverException clause may clear self.driver first
ReturnEnvelope(i) ==
  LET fr == inflight[i]
  IN  /\ fr.pc = "return"
      /\ inflight' = [inflight EXCEPT ![i] = [fr EXCEPT !.pc = "done", !.env = EnvelopeOf(fr)]]
      /\ driver' = IF fr.op = "close_specific_tab" /\ ContextLostCaught(fr.t)
                     THEN "None" ELSE driver
      /\ UNCHANGED <<browser, eng, last>>

\* an active session with at least two tabs, any of them current, and two
\* workers with no call yet
InitConcurrent ==
  \E n \in 2..MaxHandles, c \in 0..(MaxHandles - 1) :
    /\ c < n
    /\ browser = "FirefoxAutoBrowser"
    /\ driver = "WebDriver"
    /\ eng = switch_to_specific_tab("WebDriver", Prepared(n), IntT(c), NoFault, "ctx").eng
    /\ last = Idle
    /\ inflight = [i \in Workers |-> NoFrame]

NextConcurrent ==
  \E i \in Workers :
    \/ Dispatch(i)
    \/ Guard(i)
    \/ CallWindowHandles(i)
    \/ CallCurrentWindowHandle(i)
    \/ CallSwitchToWindow(i)
    \/ CallPageSource(i)
    \/ ReturnEnvelope(i)

SpecConcurrent == InitConcurrent /\ [][NextConcurrent]_vars

\* the targets the tool calls that race with an invalidation are made with
\* (their url and locator are valid ones: the checks of the arguments pass)
RaceTargets(op) ==
  IF op \in {"create_new_tab", "get_all_tabs", "get_active_tab", "quit_browser"}
    THEN {NoneT}
  ELSE IF op = "open_url_in_specific_tab" THEN {DefaultTarget}
  ELSE {NoneT} \cup {IntT(k) : k \in 0..(MaxHandles - 2)}

\* the transport hands one of these calls to a worker
Submit(i) ==
  /\ inflight[i].pc = "idle"
  /\ \E op \in ConcurrentOps \cup NestingOps
                  \cup {"create_new_tab", "get_all_tabs", "get_active_tab",
                        "close_specific_tab", "quit_browser"} :
       \E target \in RaceTargets(op) :
       inflight' = [inflight EXCEPT ![i] = Started(op, target)]
  /\ UNCHANGED <<browser, driver, eng, last>>

\* the session after a close_specific_tab(0) whose window_handles call after
\* close() raised an error that is not a context-lost one: self.driver is
\* kept and the engine's current window is the closed tab
Stranded ==
  close_specific_tab("WebDriver", Prepared(MaxHandles - 1), IntT(0),
                     [at |-> 4, kind |-> "other"], "ctx").eng

\* the sessions the calls find: a single tab (closing it is closing the last
\* one), several tabs with the first one current, or the stranded one
RaceSessions ==
  {switch_to_specific_tab("WebDriver", Prepared(n), IntT(0), NoFault, "ctx").eng :
     n \in {1, MaxHandles - 1}}
    \cup {Stranded}

\* an active session and two workers with no call yet
InitRace ==
  /\ browser = "FirefoxAutoBrowser"
  /\ driver = "WebDriver"
  /\ eng \in RaceSessions
  /\ last = Idle
  /\ inflight = [i \in Workers |-> NoFrame]

NextRace ==
  \E i \in Workers :
    \/ Submit(i)
    \/ Guard(i)
    \/ QuitGuard(i)
    \/ CallWindowHandles(i)
    \/ CallCurrentWindowHandle(i)
    \/ CallActiveHandle(i)
    \/ CallSwitchToWindow(i)
    \/ CallPageSource(i)
    \/ NestedGuard(i)
    \/ CallGet(i)
    \/ CallScrollBy(i)
    \/ CallFindElement(i)
    \/ CallScrollIntoView(i)
    \/ CallElementClick(i)
    \/ CallWindowOpen(i)
    \/ CallClose(i)
    \/ CallRemainingHandles(i)
    \/ CallSwitchRemaining(i)
    \/ CallQuit(i)
    \/ ClearDriver(i)
    \/ ReturnEnvelope(i)

SpecRace == InitRace /\ [][NextRace]_vars

----------------------------------------------------------------------------
(* Properties of the session layer *)

\* the message, or a message it wraps, carries the text
Mentions(m, text) == m.text = text \/ InList(text, m.wraps)

CallNames(calls) == {calls[k].c : k \in 1..Len(calls)}

\* engine calls that act on a page or a tab, and those that only look up or
\* switch tabs
ActCalls ==
  {"window.open", "get", "page_source", "window.scrollBy", "find_element",
   "scrollIntoView", "element.click", "close", "quit"}

LookupCalls == {"window_handles", "current_window_handle", "switch_to.window"}

\* the operations that take a tab identifier
TargetOps ==
  {"switch_to_specific_tab", "open_url_in_specific_tab", "get_specific_tab_page_content",
   "scroll_mouse_wheel_down", "scroll_mouse_wheel_up", "click_element_by_xpath",
   "click_element", "close_specific_tab"}

\* the call l began by taking a snapshot of the open tabs (its first engine
\* call is window_handles, and that call returned)
Fetched(l) ==
  /\ l.calls # <<>>
  /\ l.calls[1].c = "window_handles"
  /\ ~(Len(l.calls) = 1 /\ l.fault # "none")

\* the call l resolved its identifier to h: the engine was told to switch to h
ResolvedTo(l, h) ==
  /\ Len(l.calls) >= 2
  /\ l.calls[2] = Call("switch_to.window", h, 0)
  /\ l.h = h

\* the call l failed while resolving, before any switch or act
FailedResolving(l) == l.env.code = 500 /\ l.env.status = "failed" /\ Len(l.calls) = 1

\* C1: Session Guard -- an operation other than quit that is called while
\* self.driver is None (construction failed, or the session was invalidated)
\* returns a failed envelope with code 500 saying the driver is not
\* initialized, and issues no engine call
C1_SessionGuard ==
  (last.op \notin {"", "_init_browser", "quit_browser"} /\ last.pre.driver = "None") =>
    /\ last.env.code = 500
    /\ last.env.status = "failed"
    /\ Mentions(last.env.message, "Browser driver not initialized")
    /\ last.calls = <<>>

\* a tab lookup was refused on a session that had been open and was invalidated
C1_Witness ==
  /\ last.op = "get_active_tab"
  /\ last.pre.driver = "None"
  /\ eng.issued > 0
  /\ last.env.code = 500
  /\ last.calls = <<>>

\* close_specific_tab succeeded on the only open tab
LastTabClosed ==
  /\ last.op = "close_specific_tab"
  /\ last.env.code = 200
  /\ last.env.detail.is_last_tab

\* C2 (as amended): after close_specific_tab succeeds on the only open tab the
\* session is invalidated (self.driver is None), the close is the last
\* engine call (no switch follows it), and from that state every operation
\* other than quit fails with code 500, issues no engine call and leaves
\* the state as it is, while quit returns code 200 without an engine call
C2_LastTabCloseInvalidates ==
  LastTabClosed =>
    /\ driver = "None"
    /\ last.calls[Len(last.calls)].c = "close"
    /\ last.env.detail.switched_to_remaining_handle = ""
    /\ \A c \in OperationCalls(driver, eng) :
         /\ c.call.env.code = 500
         /\ c.call.calls = <<>>
         /\ c.driver = "None" /\ c.eng = eng
    /\ \A c \in QuitBrowserCalls(driver, eng) :
         /\ c.call.env.code = 200
         /\ c.call.calls = <<>>
         /\ c.driver = "None" /\ c.eng = eng

\* the only tab, addressed by index 0, was closed
C2_Witness ==
  /\ LastTabClosed
  /\ last.target = IntT(0)
  /\ last.pre.handles = last.all_handles
  /\ Len(last.all_handles) = 1
  /\ eng.handles = <<>>

\* C2 as stated: after the last tab is closed every subsequent operation,
\* quit included, fails with code 500 and issues no engine call
C2_EveryOperationFails ==
  LastTabClosed =>
    /\ driver = "None"
    /\ last.calls[Len(last.calls)].c = "close"
    /\ \A c \in OperationCalls(driver, eng) \cup QuitBrowserCalls(driver, eng) :
         c.call.env.code = 500 /\ c.call.calls = <<>>

\* C3: Invalidation is one-way -- once self.driver is None no operation
\* sets it again (it is assigned a driver only inside construction)
C3_InvalidationOneWay == [][driver = "None" => driver' = "None"]_vars

\* an operation ran on a session that had been open and was invalidated, and
\* the session is still invalidated
C3_Witness ==
  /\ last.op = "create_new_tab"
  /\ last.pre.driver = "None"
  /\ eng.issued > 0
  /\ driver = "None"

\* the text of the type-mismatch error
TypeMismatch == "Invalid parameter type, supports int (index) or str (handle)"

\* C4: Index resolution -- with N open tabs in the snapshot an integer
\* identifier i with 0 <= i < N resolves to handles[i]; any other i fails
\* with code 500 before any switch, and the failure message cites the valid
\* range [0, N-1]
C4_IndexResolution ==
  (last.op \in TargetOps /\ last.target.t = "int" /\ Fetched(last)) =>
    LET N == Len(last.all_handles)
        i == last.target.i
    IN  IF 0 <= i /\ i < N
          THEN ResolvedTo(last, last.all_handles[i + 1])
          ELSE /\ FailedResolving(last)
               /\ last.env.message.range = <<0, N - 1>>

\* C5: Handle resolution -- a string identifier resolves, to itself, exactly
\* when it is in the snapshot of open tabs taken by the call; otherwise the
\* call fails with code 500 before any switch, so the handle of a closed tab
\* never resolves
C5_HandleResolution ==
  (last.op \in TargetOps /\ last.target.t = "str" /\ Fetched(last)) =>
    /\ last.all_handles = last.pre.handles
    /\ IF InList(last.target.s, last.all_handles)
         THEN ResolvedTo(last, last.target.s)
         ELSE /\ FailedResolving(last)
              /\ Mentions(last.env.message,
                          "Tab handle is invalid, not in the current tab list")
              /\ eng.current = last.pre.current

\* the handle of the first tab, closed earlier, was given while other tabs
\* were open, and did not resolve
C5_Witness ==
  /\ last.op = "close_specific_tab"
  /\ last.target = StrT(HandleNames[1])
  /\ Len(last.all_handles) >= 1
  /\ ~InList(HandleNames[1], last.all_handles)
  /\ last.env.code = 500

\* the operations C6 lists: switch_tab, get_tab_content, scroll, click, close_tab
AbsentOps == TargetOps \ {"open_url_in_specific_tab"}

\* no engine failure was injected into the call
NoInjected(l) == l.fault \in {"none", "nowindow", "javascript"}

\* the engine could report an active handle when the call started
ActiveKnown(l) == l.pre.current # "" /\ InList(l.pre.current, l.pre.handles)

\* a call with no identifier on a live session
AbsentCall ==
  /\ last.op \in AbsentOps
  /\ last.target = NoneT
  /\ last.pre.driver = "WebDriver"
  /\ NoInjected(last)

\* C6 (as amended): with no identifier, get_specific_tab_page_content and
\* close_specific_tab resolve to the engine's active handle and act on it, and
\* fail with code 500 without acting when the engine cannot report one;
\* the scroll and click operations do no resolution: they issue no lookup or
\* switch, only their own engine calls against the current context, and
\* fail with code 500 when there is none; switch_to_specific_tab rejects a
\* missing identifier with the type-mismatch error, code 500, and no switch
C6_AbsentResolution ==
  AbsentCall =>
    IF last.op \in {"get_specific_tab_page_content", "close_specific_tab"}
      THEN IF ActiveKnown(last)
             THEN /\ last.h = last.pre.current
                  /\ last.env.code = 200
                  /\ \E k \in 1..Len(last.calls) :
                       /\ last.calls[k].c \in {"page_source", "close"}
                       /\ last.calls[k].h = last.pre.current
             ELSE /\ last.env.code = 500
                  /\ CallNames(last.calls) \cap ActCalls = {}
    ELSE IF last.op = "switch_to_specific_tab"
      THEN /\ FailedResolving(last)
           /\ Mentions(last.env.message, TypeMismatch)
           /\ eng.current = last.pre.current
    ELSE /\ CallNames(last.calls) \cap LookupCalls = {}
         /\ ~ActiveKnown(last) => last.env.code = 500
         /\ eng.current = last.pre.current

\* the page content was asked for with no identifier while the engine had no
\* current window, and the call failed without reading a page
C6_Witness ==
  /\ AbsentCall
  /\ last.op = "get_specific_tab_page_content"
  /\ ~ActiveKnown(last)
  /\ last.env.code = 500
  /\ last.calls = <<Call("current_window_handle", "", 0)>>

\* C6 as stated: with no identifier every listed operation takes the
\* engine's active handle (it does not reject the identifier), and when the
\* engine cannot report one it fails with code 500 instead of acting
C6_AbsentIsActiveEverywhere ==
  AbsentCall =>
    IF ActiveKnown(last)
      THEN ~Mentions(last.env.message, TypeMismatch)
      ELSE /\ last.env.code = 500
           /\ CallNames(last.calls) \cap ActCalls = {}

\* C7: Type mismatch -- an identifier that is neither absent, an integer nor
\* a string (a boolean, a float, a list) fails with the type-mismatch error,
\* code 500, and is never used as an index or a handle
C7_TypeMismatch ==
  (last.op \in TargetOps /\ last.target.t \notin {"NoneType", "int", "str"}
     /\ Fetched(last)) =>
    /\ FailedResolving(last)
    /\ Mentions(last.env.message, TypeMismatch)

\* the fault-free calls of get_active_tab in the current state
ActiveTabNow == {c \in GetActiveTabCalls(driver, eng) : c.call.fault = "none"}

\* C8: after switch_to_specific_tab(t) succeeds, get_active_tab succeeds,
\* its data is the handle t resolved to, and the handle at its
\* active_tab_index in the list it fetched is that handle
C8_SwitchThenActive ==
  (last.op = "switch_to_specific_tab" /\ last.env.code = 200) =>
    /\ last.env.detail.target_handle = last.h
    /\ ActiveTabNow # {}
    /\ \A c \in ActiveTabNow :
         /\ c.call.env.code = 200
         /\ c.call.env.data = StrV(last.h)
         /\ c.call.all_handles[c.call.env.detail.active_tab_index + 1] = last.h

\* a switch by handle moved the active tab to a tab other than the one that
\* was active
C8_Witness ==
  /\ last.op = "switch_to_specific_tab"
  /\ last.env.code = 200
  /\ last.target.t = "str"
  /\ last.h # last.pre.current
  /\ InList(last.pre.current, last.pre.handles)

\* close_specific_tab succeeded with at least two tabs open
OtherTabClosed ==
  /\ last.op = "close_specific_tab"
  /\ last.env.code = 200
  /\ last.env.detail.tab_count_before_close >= 2

\* C9: after close_specific_tab succeeds with N >= 2 tabs the session is
\* still active, the closed handle is gone from the open tabs, the active
\* context is the first handle of the snapshot taken again after the close
\* (whichever tab was active before), and get_active_tab then succeeds
C9_CloseSwitchesToFirst ==
  OtherTabClosed =>
    /\ driver = "WebDriver"
    /\ ~InList(last.env.detail.closed_handle, eng.handles)
    /\ eng.handles = Without(last.pre.handles, last.env.detail.closed_handle)
    /\ eng.current = eng.handles[1]
    /\ last.env.detail.switched_to_remaining_handle = eng.handles[1]
    /\ ActiveTabNow # {}
    /\ \A c \in ActiveTabNow :
         c.call.env.code = 200 /\ c.call.env.data = StrV(eng.handles[1])

\* a tab other than the active one was closed, and the tab that was active,
\* though still open, is not the active one any more
C9_Witness ==
  /\ OtherTabClosed
  /\ last.pre.current # last.env.detail.closed_handle
  /\ InList(last.pre.current, eng.handles)
  /\ eng.current # last.pre.current

\* C10: quit is idempotent and callable in any state -- a quit whose engine
\* call does not fail returns code 200 and leaves self.driver None, and any
\* quit made while self.driver is None (a second quit, or a quit on a
\* session never opened or invalidated) returns code 200, issues no engine
\* call and changes no state
C10_QuitIdempotent ==
  /\ (last.op = "quit_browser" /\ last.fault = "none") =>
       /\ last.env.code = 200
       /\ driver = "None"
  /\ (last.op = "quit_browser" /\ last.pre.driver = "None") =>
       /\ last.calls = <<>>
       /\ eng.handles = last.pre.handles /\ eng.current = last.pre.current
  /\ driver = "None" =>
       \A c \in QuitBrowserCalls(driver, eng) :
         /\ c.call.env.code = 200
         /\ c.call.calls = <<>>
         /\ c.driver = driver /\ c.eng = eng

\* quit ended an open session: the state in which the second quit is made
C10_Witness ==
  /\ last.op = "quit_browser"
  /\ last.pre.driver = "WebDriver"
  /\ last.calls = <<Call("quit", "", 0)>>
  /\ last.env.code = 200
  /\ driver = "None"

\* the fault-free calls of get_all_tabs in the current state
AllTabsNow == {c \in GetAllTabsCalls(driver, eng) : c.call.fault = "none"}

\* the indexes of the tabs_info entries marked active
MarkedActive(tabs_info) ==
  {k \in 1..Len(tabs_info) : tabs_info[k].status = "[Currently Active]"}

\* C11: a successful create_new_tab on a session with N tabs keeps the N
\* handles in their order, appends exactly one handle that is none of them,
\* and leaves the active context alone; get_all_tabs then reports N+1 tabs
\* with exactly one entry marked active, the tab that was active before
C11_CreateAppendsOneTab ==
  (last.op = "create_new_tab" /\ last.env.code = 200) =>
    LET N == Len(last.pre.handles)
    IN  /\ last.pre.driver = "WebDriver"
        /\ Len(eng.handles) = N + 1
        /\ SubSeq(eng.handles, 1, N) = last.pre.handles
        /\ ~InList(eng.handles[N + 1], last.pre.handles)
        /\ eng.current = last.pre.current
        /\ AllTabsNow # {}
        /\ \A c \in AllTabsNow :
             /\ c.call.env.code = 200
             /\ c.call.env.detail.total_tabs = N + 1
             /\ c.call.env.data = ListV(eng.handles)
             /\ \E k \in 1..N :
                  /\ MarkedActive(c.call.env.detail.tabs_info) = {k}
                  /\ c.call.env.detail.tabs_info[k].handle = last.pre.current

\* a third tab was created while the second one was active
C11_Witness ==
  /\ last.op = "create_new_tab"
  /\ last.env.code = 200
  /\ Len(last.pre.handles) = 2
  /\ last.pre.current = last.pre.handles[2]
  /\ Len(eng.handles) = 3

\* status is "success" exactly when code is 200, and data is not null only
\* on success
StatusMatchesCode(env) ==
  /\ env.status = "success" <=> env.code = 200
  /\ env.data # NoneV => env.status = "success"

\* C12: every envelope an operation returns -- construction's and the
\* module-level guard's included -- has status "success" if and only if
\* its code is 200, and a non-null data field only when it is a success
C12_StatusMatchesCode ==
  last.op # "" =>
    /\ StatusMatchesCode(last.env)
    /\ StatusMatchesCode(GuardEnvelope(last.env.detail))

\* a failed envelope and a populated one: the page content of a tab was
\* returned as data
C12_Witness ==
  /\ last.op = "get_specific_tab_page_content"
  /\ last.env.code = 200
  /\ last.env.status = "success"
  /\ last.env.data.t = "str"
  /\ GuardEnvelope(last.env.detail).code = 500

\* an envelope with the five fields, a known code and status, and a message
WellFormed(env) ==
  /\ DOMAIN env = {"code", "status", "message", "detail", "data"}
  /\ env.code \in {200, 404, 500}
  /\ env.status \in {"success", "failed"}
  /\ env.message.text # ""

\* C13: no failure escapes an operation -- whatever the input and whichever
\* engine call inside it fails, the operation returns a well-formed envelope;
\* a failed engine call gives a failed envelope (but for the lookup of the
\* active handle that get_all_tabs tolerates)
C13_NoFailureEscapes ==
  last.op # "" =>
    /\ WellFormed(last.env)
    /\ last.fault # "none" =>
         \/ last.env.status = "failed"
         \/ last.op = "get_all_tabs" /\ Len(last.calls) = 2

\* the last engine call of close_specific_tab, the switch after the close,
\* failed, and the call returned a failed envelope
C13_Witness ==
  /\ last.op = "close_specific_tab"
  /\ last.fault = "other"
  /\ Len(last.calls) = MaxCalls
  /\ WellFormed(last.env)
  /\ last.env.code = 500

ClickOps == {"click_element_by_xpath", "click_element"}

\* C14: error classification -- every code is 200, 404 or 500; 404 comes
\* only from the click operations and only when find_element found no
\* element for the locator, and then it is 404; every other failure of
\* every operation has code 500
C14_ErrorClassification ==
  last.op # "" =>
    LET notFound == /\ last.op \in ClickOps
                    /\ last.fault = "nosuch"
                    /\ last.calls[Len(last.calls)].c = "find_element"
    IN  /\ last.env.code \in {200, 404, 500}
        /\ last.env.code = 404 <=> notFound
        /\ (last.env.status = "failed" /\ ~notFound) => last.env.code = 500

\* a click on a missing element in the current tab gave 404
C14_Witness ==
  /\ last.op = "click_element_by_xpath"
  /\ last.target = NoneT
  /\ last.fault = "nosuch"
  /\ last.calls = <<Call("find_element", last.pre.current, 0)>>
  /\ last.env.code = 404

\* C15: an operation, whichever it is, whose engine call fails saying that
\* the browsing context or window no longer exists returns a failed
\* envelope and invalidates the session (self.driver becomes None), so the
\* next operation is rejected by the session guard
C15_ContextLostInvalidates ==
  (last.op \notin {"", "_init_browser"} /\ last.fault = "ctx") =>
    /\ last.env.status = "failed"
    /\ driver = "None"

\* the operations that act on the tab they are given
ActingOps == TargetOps \ {"switch_to_specific_tab"}

\* the engine calls that record the window they were applied to
WindowCalls == {"page_source", "find_element", "scrollIntoView", "element.click", "close"}

\* C16: switch then act -- an operation given a tab identifier issues its
\* act call only after the snapshot and a switch, that did not fail, to the
\* handle it resolved in that same operation; the engine's active context is
\* that handle when the act call is made; if resolution or the switch fails
\* no act call is issued
C16_SwitchThenAct ==
  (last.op \in ActingOps /\ last.target # NoneT) =>
    \A k \in 1..Len(last.calls) :
      last.calls[k].c \in ActCalls =>
        /\ k >= 3
        /\ last.calls[1].c = "window_handles"
        /\ last.calls[2] = Call("switch_to.window", last.h, 0)
        /\ InList(last.h, last.all_handles)
        /\ last.calls[k].c \in WindowCalls => last.calls[k].h = last.h
        /\ last.op # "close_specific_tab" => eng.current = last.h

\* a click addressed to a tab other than the active one went through the
\* switch and the three act calls
C16_Witness ==
  /\ last.op = "click_element"
  /\ last.target.t = "str"
  /\ last.h # last.pre.current
  /\ InList(last.pre.current, last.pre.handles)
  /\ Len(last.calls) = 5
  /\ last.env.code = 200

\* C17: after open_url_in_specific_tab(u, t) succeeds,
\* get_specific_tab_page_content with the same identifier, or with none,
\* succeeds, its data is the markup of the page u loaded in that tab, and
\* detail.content_length is the length of data
C17_OpenThenContent ==
  (last.op = "open_url_in_specific_tab" /\ last.env.code = 200) =>
    LET reads == {c \in GetSpecificTabPageContentCalls(driver, eng) :
                    c.call.fault = "none" /\ c.call.target \in {last.target, NoneT}}
    IN  /\ \E c \in reads : c.call.target = NoneT
        /\ \E c \in reads : c.call.target = last.target
        /\ \A c \in reads :
             /\ c.call.env.code = 200
             /\ c.call.env.detail.target_handle = last.h
             /\ c.call.env.data = StrV(Markup(last.arg.url.s))
             /\ c.call.env.detail.content_length = Len(c.call.env.data.s)

\* a page was opened in a tab, addressed by handle, that was not the active one
C17_Witness ==
  /\ last.op = "open_url_in_specific_tab"
  /\ last.env.code = 200
  /\ last.target.t = "str"
  /\ last.h # last.pre.current
  /\ eng.page[last.h] = last.arg.url.s

\* C18: open_url_in_specific_tab called without a tab identifier targets
\* index 0 -- it navigates the first handle of the snapshot, whichever tab
\* was active, and on success that first tab is the active context
C18_OpenUrlDefaultsToFirst ==
  (/\ last.op = "open_url_in_specific_tab"
   /\ last.target = DefaultTarget
   /\ last.pre.driver = "WebDriver"
   /\ ~InvalidText(last.arg.url)
   /\ last.fault = "none") =>
    /\ last.env.code = 200
    /\ last.all_handles = last.pre.handles
    /\ last.calls = <<Call("window_handles", "", 0),
                      Call("switch_to.window", last.all_handles[1], 0),
                      Call("get", last.arg.url.s, 0)>>
    /\ eng.current = last.all_handles[1]
    /\ eng.page[last.all_handles[1]] = last.arg.url.s

\* a page was opened with the default target while the second tab was active
C18_Witness ==
  /\ last.op = "open_url_in_specific_tab"
  /\ last.target = DefaultTarget
  /\ last.env.code = 200
  /\ Len(last.pre.handles) >= 2
  /\ last.pre.current = last.pre.handles[2]
  /\ eng.current = last.pre.handles[1]

\* get_tab_content, scroll and click
InPlaceOps ==
  {"get_specific_tab_page_content", "scroll_mouse_wheel_down", "scroll_mouse_wheel_up",
   "click_element_by_xpath", "click_element"}

\* C19: get_specific_tab_page_content, the scroll and the click operations
\* called with no tab identifier issue no switch: the engine's active
\* context and the open tabs are after the call what they were before, and
\* the act is applied to the context that was active on entry
C19_AbsentLeavesContext ==
  (last.op \in InPlaceOps /\ last.target = NoneT) =>
    /\ "switch_to.window" \notin CallNames(last.calls)
    /\ eng.current = last.pre.current
    /\ eng.handles = last.pre.handles
    /\ \A k \in 1..Len(last.calls) :
         last.calls[k].c \in WindowCalls => last.calls[k].h = last.pre.current
    /\ (last.op = "get_specific_tab_page_content" /\ last.env.code = 200) =>
         /\ last.env.detail.target_handle = last.pre.current
         /\ last.env.data = StrV(Markup(eng.page[last.pre.current]))

\* the content of the active tab, not the first one, was read with no identifier
C19_Witness ==
  /\ last.op = "get_specific_tab_page_content"
  /\ last.target = NoneT
  /\ last.env.code = 200
  /\ Len(last.pre.handles) >= 2
  /\ last.pre.current # last.pre.handles[1]
  /\ last.calls = <<Call("current_window_handle", "", 0),
                    Call("page_source", last.pre.current, 0)>>

\* C20: for every integer distance d, zero and negative included, scroll
\* down tells the engine to offset the viewport by +d and scroll up by -d
C20_ScrollOffsets ==
  (last.op \in {"scroll_mouse_wheel_down", "scroll_mouse_wheel_up"}) =>
    \A k \in 1..Len(last.calls) :
      (last.calls[k].c = "window.scrollBy" /\ last.fault \in {"none", "javascript"}) =>
        /\ last.fault = "none"
        /\ last.calls[k].n = IF last.op = "scroll_mouse_wheel_down"
                               THEN last.arg.scroll_distance
                               ELSE 0 - last.arg.scroll_distance

\* C21: get_all_tabs on an active session succeeds whatever the number of
\* tabs, zero included (count 0, empty list), unless window_handles itself
\* fails: it returns every handle in order with index 0..N-1 and
\* total_tabs = N, and marks exactly the active tab when the engine reports
\* the active handle, and no tab when the engine cannot report it
C21_ListTabsAlwaysSucceeds ==
  /\ (/\ last.op = "get_all_tabs"
      /\ last.pre.driver = "WebDriver"
      /\ ~(Len(last.calls) = 1 /\ last.fault # "none")) =>
       LET N == Len(last.pre.handles)
           info == last.env.detail.tabs_info
       IN  /\ last.env.code = 200
           /\ last.env.data = ListV(last.pre.handles)
           /\ last.env.detail.total_tabs = N
           /\ Len(info) = N
           /\ \A k \in 1..N : info[k].index = k - 1 /\ info[k].handle = last.pre.handles[k]
           /\ IF last.fault = "none"
                THEN \E k \in 1..N : /\ MarkedActive(info) = {k}
                                     /\ last.pre.handles[k] = last.pre.current
                ELSE MarkedActive(info) = {}
  /\ LET r == get_all_tabs("WebDriver", [NewSession EXCEPT !.handles = <<>>, !.current = ""],
                           NoFault, "other")
     IN  /\ r.env.code = 200
         /\ r.env.detail.total_tabs = 0
         /\ r.env.data = ListV(<<>>)

\* the tabs were listed while the engine had no current window: two tabs,
\* none marked active
C21_Witness ==
  /\ last.op = "get_all_tabs"
  /\ last.fault = "nowindow"
  /\ last.env.code = 200
  /\ Len(last.env.detail.tabs_info) = 2
  /\ MarkedActive(last.env.detail.tabs_info) = {}

\* the call failed because its identifier did not resolve
ResolutionFailed(l) ==
  /\ l.op \in TargetOps
  /\ l.env.status = "failed"
  /\ \/ Mentions(l.env.message, "Tab index is invalid, only tabs exist currently (index)")
     \/ Mentions(l.env.message, "Tab index is invalid, only tabs exist currently")
     \/ Mentions(l.env.message, "Tab handle is invalid, not in the current tab list")
     \/ Mentions(l.env.message, TypeMismatch)

\* C23: resolution is a pure lookup -- when an operation fails because its
\* identifier does not resolve, the open tabs, the engine's active context
\* and self.driver are what they were before the call, and the only engine
\* call issued is the snapshot: no switch, no act, no close
C23_ResolutionIsLookup ==
  ResolutionFailed(last) =>
    /\ last.calls = <<Call("window_handles", "", 0)>>
    /\ eng.handles = last.pre.handles
    /\ eng.current = last.pre.current
    /\ driver = last.pre.driver

\* close_specific_tab was given an index out of range while the second of
\* two tabs was active
C23_Witness ==
  /\ ResolutionFailed(last)
  /\ last.op = "close_specific_tab"
  /\ last.target = IntT(MaxHandles)
  /\ Len(last.pre.handles) = 2
  /\ last.pre.current = last.pre.handles[2]

\* C24: every resolution uses a snapshot fetched inside the same operation
\* -- the list resolved against is the list of open tabs at that moment, so
\* an index i resolves to the i-th tab now open (indexes shift down after a
\* close), and the switch after a close uses a list fetched after the close
C24_FreshSnapshot ==
  /\ (last.op \in TargetOps /\ Fetched(last)) =>
       /\ last.all_handles = last.pre.handles
       /\ (/\ last.target.t = "int"
           /\ 0 <= last.target.i /\ last.target.i < Len(last.pre.handles)) =>
            last.h = last.pre.handles[last.target.i + 1]
  /\ OtherTabClosed =>
       LET n == Len(last.calls)
       IN  /\ n >= 5
           /\ last.calls[n - 2].c = "close"
           /\ last.calls[n - 1].c = "window_handles"
           /\ last.calls[n] =
                Call("switch_to.window",
                     Without(last.pre.handles, last.env.detail.closed_handle)[1], 0)
           /\ last.env.detail.switched_to_remaining_handle # last.env.detail.closed_handle

\* after the first tab was closed, index 0 resolved to the second tab issued
C24_Witness ==
  /\ last.op = "switch_to_specific_tab"
  /\ last.target = IntT(0)
  /\ last.env.code = 200
  /\ last.h = HandleNames[2]

\* an empty or non-string text argument
BadText(x) == x = StrT("") \/ x.t # "str"

\* the call was given an invalid parameter
InvalidParameter(l) ==
  \/ l.op = "open_url_in_specific_tab" /\ BadText(l.arg.url)
  \/ l.op = "click_element_by_xpath" /\ BadText(l.arg.xpath)
  \/ l.op = "click_element"
       /\ (l.arg.locator_type \notin SupportedLocators \/ BadText(l.arg.locator))

\* C25: invalid parameters are rejected before any engine interaction --
\* a click with an unsupported locator type or an empty or non-string
\* locator, and open_url with an empty or non-string url, return code 500
\* without any engine call and leave the active context alone, even when a
\* valid tab identifier was given
C25_InvalidParameterFirst ==
  InvalidParameter(last) =>
    /\ last.env.code = 500
    /\ last.calls = <<>>
    /\ eng.current = last.pre.current
    /\ eng.handles = last.pre.handles

\* a click with an unsupported locator type was addressed to the first tab
\* while the second one was active
C25_Witness ==
  /\ last.op = "click_element"
  /\ last.arg.locator_type \notin SupportedLocators
  /\ last.target = IntT(0)
  /\ last.pre.driver = "WebDriver"
  /\ Len(last.pre.handles) = 2
  /\ last.pre.current = last.pre.handles[2]
  /\ last.env.code = 500

\* C26 (current-tab invariant): whenever self.driver is set, at least one tab
\* is open and the engine's current window is one of the open tabs, also
\* after an operation that failed at one of its engine calls.
C26_CurrentTabInvariant ==
  driver = "WebDriver" => eng.handles # <<>> /\ InList(eng.current, eng.handles)

ContextLost == "Browsing context invalidated (tab/browser closed), cannot continue operation"

\* a tool call returned a failed envelope
FailedCall(l) == l # Idle /\ l.op # "_init_browser" /\ l.env.code # 200

\* C27 (only context-lost errors invalidate): a failed tool call leaves
\* self.driver as it found it unless it is close_specific_tab failing with an
\* engine error whose text denotes a discarded context or a missing window,
\* which clears it; resolution errors, invalid parameters, timeouts, elements
\* not found and other engine errors change nothing.
C27_OnlyContextLostInvalidates ==
  FailedCall(last) =>
    /\ driver # last.pre.driver =>
         /\ last.op = "close_specific_tab"
         /\ last.env.message.text = ContextLost
         /\ last.fault \in {"ctx", "nowindow"}
         /\ driver = "None"
    /\ ~(last.op = "close_specific_tab" /\ last.env.message.text = ContextLost) =>
         driver = last.pre.driver
    /\ last.fault \in {"other", "timeout", "nosuch", "javascript", "none"} =>
         driver = last.pre.driver

\* failed calls of both sorts happen: a context-lost failure of some other
\* operation that leaves the session as it was
C27_Witness ==
  /\ FailedCall(last)
  /\ last.op = "create_new_tab"
  /\ last.fault = "ctx"
  /\ last.pre.driver = "WebDriver"
  /\ driver = "WebDriver"

\* calls without a target on the present state that the engine does not fail
AbsentContentNow ==
  {c \in GetSpecificTabPageContentCalls(driver, eng) :
     c.call.target = NoneT /\ c.call.fault = "none"}

\* the operations that switch and then act on the page
SwitchActOps == ActingOps \ {"close_specific_tab"}

\* the call resolved a tab other than the active one, switched to it, and
\* failed in a later engine call
ActFailedAfterSwitch(l) ==
  /\ FailedCall(l)
  /\ l.op \in SwitchActOps
  /\ l.target # NoneT
  /\ Len(l.calls) >= 3
  /\ l.calls[2].c = "switch_to.window"
  /\ l.calls[2].h # l.pre.current

\* C28 (the switch is not rolled back): when open_url, get content, scroll or
\* click resolves a tab other than the active one and its act step fails, the
\* envelope is a failure, the engine's current window is the resolved tab,
\* and a following call without a target acts on that tab.
C28_SwitchNotRolledBack ==
  ActFailedAfterSwitch(last) =>
    /\ last.env.status = "failed"
    /\ eng.current = last.calls[2].h
    /\ eng.current # last.pre.current
    /\ driver = "WebDriver"
    /\ AbsentContentNow # {}
    /\ \A c \in AbsentContentNow :
         /\ c.call.env.code = 200
         /\ c.call.env.detail.target_handle = last.calls[2].h
         /\ c.call.calls[2] = Call("page_source", last.calls[2].h, 0)

\* an element not found (404) on a tab that was not the active one
C28_Witness ==
  /\ ActFailedAfterSwitch(last)
  /\ last.op = "click_element"
  /\ last.env.code = 404
  /\ last.fault = "nosuch"
  /\ last.pre.current = "A"
  /\ eng.current = "B"

\* C29 (quit clears the handle only when quit() returns): quit_browser
\* returns 200 exactly when self.driver is None on return; when the session
\* is active and quit() raises, it returns 500, self.driver stays set, other
\* operations still pass the guard, and a later quit_browser calls quit() again.
C29_QuitClearsOnSuccess ==
  (last # Idle /\ last.op = "quit_browser") =>
    /\ last.env.code = 200 <=> driver = "None"
    /\ last.env.code \in {200, 500}
    /\ (last.pre.driver = "WebDriver" /\ last.fault # "none") =>
         /\ last.env.code = 500
         /\ last.calls = <<Call("quit", "", 0)>>
         /\ driver = "WebDriver"
         /\ \A c \in QuitBrowserCalls(driver, eng) : c.call.calls = <<Call("quit", "", 0)>>
         /\ \A c \in GetAllTabsCalls(driver, eng) : c.call.calls # <<>>
    /\ (last.pre.driver = "WebDriver" /\ last.fault = "none") =>
         /\ last.calls = <<Call("quit", "", 0)>>
         /\ driver = "None"
    /\ last.pre.driver = "None" => last.calls = <<>>

\* quit() raised on an active session
C29_Witness ==
  /\ last # Idle
  /\ last.op = "quit_browser"
  /\ last.pre.driver = "WebDriver"
  /\ last.fault = "other"
  /\ last.env.code = 500
  /\ \E c \in QuitBrowserCalls(driver, eng) : c.driver = "None" /\ c.call.env.code = 200

\* identifiers of type int or str
IndexOrHandle == {x \in Targets : x.t \in {"int", "str"}}

\* C30 (the three resolution sites agree): for the open tabs of every active
\* session and every int or str identifier, the resolutions written in
\* switch_to_specific_tab, get_specific_tab_page_content and
\* close_specific_tab all give the same handle or all fail.
C30_ResolutionSitesAgree ==
  (driver = "WebDriver" /\ eng.handles # <<>>) =>
    \A x \in IndexOrHandle :
      LET s == ResolveSwitch(x, eng.handles)
          g == ResolveContent(x, eng.handles)
          c == ResolveClose(x, eng.handles)
      IN  /\ s.ok = g.ok /\ g.ok = c.ok
          /\ s.handle = g.handle /\ g.handle = c.handle
          /\ s.ok => InList(s.handle, eng.handles)

\* a registry whose indices have shifted, with identifiers that resolve and
\* identifiers that do not
C30_Witness ==
  /\ driver = "WebDriver"
  /\ eng.handles = <<"B", "C">>
  /\ ResolveClose(IntT(1), eng.handles).handle = "C"
  /\ ResolveContent(StrT("C"), eng.handles).ok
  /\ ~ResolveSwitch(StrT("A"), eng.handles).ok
  /\ ~ResolveClose(IntT(-1), eng.handles).ok
  /\ ~ResolveContent(IntT(2), eng.handles).ok

\* the calls of the other worker
Others(i) == Workers \ {i}

\* a get_specific_tab_page_content call that returned success
ContentDone(fr) ==
  fr.op = "get_specific_tab_page_content" /\ fr.pc = "done" /\ fr.env.code = 200

\* the window that was the engine's current one when page_source was issued
ReadFrom(fr) == fr.t.calls[Len(fr.t.calls)].h

\* C22 (no lock): with two calls interleaved at their engine calls,
\* page_source is applied to whatever window is the engine's current one when
\* it is issued: a successful get_specific_tab_page_content returns that
\* window's markup while its detail names the handle the call itself resolved
\* and switched to; the two differ only when the other call has switched the
\* engine to that window in between.
C22_NoLock ==
  \A i \in DOMAIN inflight :
    LET fr == inflight[i]
    IN  ContentDone(fr) =>
          /\ fr.env.status = "success"
          /\ fr.env.data = StrV(Markup(eng.page[ReadFrom(fr)]))
          /\ fr.env.detail.target_handle = fr.t.h
          /\ fr.target # NoneT =>
               /\ fr.t.h = ResolveContent(fr.target, fr.t.hs).handle
               /\ fr.t.calls[Len(fr.t.calls) - 1] = Call("switch_to.window", fr.t.h, 0)
          /\ ReadFrom(fr) # fr.t.h =>
               \E j \in Others(i) :
                 InList(Call("switch_to.window", ReadFrom(fr), 0), inflight[j].t.calls)

\* get_specific_tab_page_content(0) and switch_to_specific_tab(1) both
\* returned success, and the content returned for tab 0 is the page of tab 1
C22_Witness ==
  /\ DOMAIN inflight = Workers
  /\ \E i \in Workers : \E j \in Others(i) :
       /\ ContentDone(inflight[i])
       /\ inflight[i].target = IntT(0)
       /\ inflight[i].env.detail.target_handle = "A"
       /\ ReadFrom(inflight[i]) = "B"
       /\ inflight[i].env.data = StrV(Markup(PageOf(1)))
       /\ inflight[i].env.data # StrV(Markup(eng.page["A"]))
       /\ inflight[j].op = "switch_to_specific_tab"
       /\ inflight[j].target = IntT(1)
       /\ inflight[j].pc = "done"
       /\ inflight[j].env.code = 200
       /\ inflight[j].env.detail.target_handle = "B"

\* C31 (initialization outcome and session state agree): after construction
\* self.driver is set if and only if the initialization envelope has code
\* 200; after a failed initialization, a failure of the timeout calls
\* included, every operation other than quit_browser returns code 500
\* without an engine call.
C31_InitOutcomeAgrees ==
  (last # Idle /\ last.op = "_init_browser") =>
    /\ driver = "WebDriver" <=> last.env.code = 200
    /\ last.env.code # 200 =>
         \A c \in OperationCalls(driver, eng) :
           c.call.env.code = 500 /\ c.call.calls = <<>>

\* a call that has returned and had self.driver cleared by another call
\* between its guard and one of its engine calls
Raced(fr) == fr.pc = "done" /\ fr.lost

\* C32 as stated (invalidation racing with another operation): the call that
\* lost self.driver between its guard and an engine call returns a
\* well-formed failed envelope with code 500.
C32_RaceGivesFailure ==
  \A i \in DOMAIN inflight :
    Raced(inflight[i]) =>
      /\ WellFormed(inflight[i].env)
      /\ inflight[i].env.code = 500
      /\ inflight[i].env.status = "failed"

\* get_all_tabs lost self.driver after window_handles had returned
LostAtActiveHandle(fr) ==
  fr.op = "get_all_tabs" /\ fr.t.calls = <<Call("window_handles", "", 0)>>

\* a click operation lost self.driver after it had found its element
LostAtElementClick(fr) ==
  /\ fr.op \in ClickOps
  /\ fr.t.calls # <<>>
  /\ fr.t.calls[Len(fr.t.calls)].c = "element.click"

NotInitialized == "Browser driver not initialized"

NoAttribute == "'NoneType' object has no attribute"

\* C32 (amended): every call returns a well-formed envelope and none raises.
\* The call that lost self.driver between its guard and an engine call
\* returns a failed envelope with code 500 (the AttributeError, or the
\* nested guard's message), with two exceptions: get_all_tabs losing it at
\* current_window_handle, whose inner handler swallows the error, returns
\* code 200 with the handles it fetched and no tab marked active; and a click
\* operation losing it before target_element.click(), which does not read
\* self.driver, returns what the engine makes of the click.
C32_RaceContained ==
  \A i \in DOMAIN inflight :
    LET fr == inflight[i]
    IN  fr.pc = "done" =>
          /\ WellFormed(fr.env)
          /\ StatusMatchesCode(fr.env)
          /\ (fr.lost /\ ~LostAtActiveHandle(fr) /\ ~LostAtElementClick(fr)) =>
               /\ fr.env.code = 500
               /\ fr.env.status = "failed"
               /\ \/ Mentions(fr.env.message, NoAttribute)
                  \/ Mentions(fr.env.message, NotInitialized)
          /\ (fr.lost /\ LostAtActiveHandle(fr)) =>
               /\ fr.env.code = 200
               /\ fr.env.data = ListV(fr.t.hs)
               /\ MarkedActive(fr.env.detail.tabs_info) = {}
          /\ (fr.lost /\ LostAtElementClick(fr)) =>
               /\ fr.env.code \in {200, 500}
               /\ fr.env.code = 200 <=> ~Raised(fr.t)
               /\ Raised(fr.t) => fr.t.exc.cls = "WebDriverException"

\* quit_browser cleared self.driver while create_new_tab was between its
\* guard and window.open: create_new_tab returned 500 without an engine call
C32_Witness ==
  /\ DOMAIN inflight = Workers
  /\ driver = "None"
  /\ \E i \in Workers : \E j \in Others(i) :
       /\ inflight[i].op = "create_new_tab"
       /\ Raced(inflight[i])
       /\ inflight[i].t.calls = <<>>
       /\ inflight[i].env.code = 500
       /\ inflight[j].op = "quit_browser"
       /\ inflight[j].pc = "done"
       /\ inflight[j].env.code = 200

====
